---------------------------- MODULE Spec2Model ----------------------------
(***************************************************************************)
(* Model of the algorithmic-bias-survey dashboard.                         *)
(*                                                                         *)
(*   Spec          the BiasResearchDashboard page: the one-time load of    *)
(*                 papers.csv and the papers table (filters, sort, paging, *)
(*                 map mode, paper modal), with the chart views as         *)
(*                 operators over the loaded records.                      *)
(*   SpecAnalytics the AdvancedAnalytics component with its four           *)
(*                 multi-select filters and the CoAuthorNetworkGraph it    *)
(*                 feeds.                                                  *)
(*                                                                         *)
(* A JavaScript string is a sequence of one-character strings, so that     *)
(* split, trim, toLowerCase, includes and the default sort are computed    *)
(* and not assumed.                                                        *)
(***************************************************************************)
EXTENDS Integers, Sequences, FiniteSets, TLC

(***************************************************************************)
(* Bounds of the model.                                                    *)
(***************************************************************************)
MaxPapers == 2

MaxSelected == 1

(***************************************************************************)
(* Strings.                                                                *)
(***************************************************************************)
\* The characters of the model in ascending UTF-16 code unit order.  "<->"
\* stands for the single character U+2194.
CharOrder ==
  << "\n", " ", "\"", ",", "-", "/",
     "0", "1", "2", "3", "4", "5", "6", "7", "8", "9", ";",
     "A", "B", "C", "D", "E", "F", "G", "H", "I", "J", "K", "L", "M",
     "N", "O", "P", "Q", "R", "S", "T", "U", "V", "W", "X", "Y", "Z",
     "a", "b", "c", "d", "e", "f", "g", "h", "i", "j", "k", "l", "m",
     "n", "o", "p", "q", "r", "s", "t", "u", "v", "w", "x", "y", "z",
     "<->" >>

Chars == {CharOrder[i] : i \in 1..Len(CharOrder)}

\* The position of each character in CharOrder.
CodeMap == [c \in Chars |-> CHOOSE i \in 1..Len(CharOrder) : CharOrder[i] = c]

Code(c) == CodeMap[c]

IsDigit(c) == c \in {"0", "1", "2", "3", "4", "5", "6", "7", "8", "9"}

\* The lower-case and the upper-case form of each character: the letters
\* are 26 places apart in CharOrder.
LowerMap ==
  [c \in Chars |->
     IF CodeMap[c] >= CodeMap["A"] /\ CodeMap[c] <= CodeMap["Z"]
       THEN CharOrder[CodeMap[c] + 26] ELSE c]

UpperMap ==
  [c \in Chars |->
     IF CodeMap[c] >= CodeMap["a"] /\ CodeMap[c] <= CodeMap["z"]
       THEN CharOrder[CodeMap[c] - 26] ELSE c]

LowerChar(c) == LowerMap[c]

UpperChar(c) == UpperMap[c]

\* String.prototype.toLowerCase
ToLowerCase(s) == [i \in 1..Len(s) |-> LowerChar(s[i])]

IsSpace(c) == c \in {" ", "\n"}

RECURSIVE TrimStart(_)
TrimStart(s) ==
  IF s # <<>> /\ IsSpace(Head(s)) THEN TrimStart(Tail(s)) ELSE s

RECURSIVE TrimEnd(_)
TrimEnd(s) ==
  IF s # <<>> /\ IsSpace(s[Len(s)]) THEN TrimEnd(SubSeq(s, 1, Len(s) - 1))
  ELSE s

\* String.prototype.trim
Trim(s) == TrimEnd(TrimStart(s))

\* String.prototype.split with a one-character separator: "" gives [""].
RECURSIVE SplitFrom(_, _, _)
SplitFrom(s, sep, cur) ==
  IF s = <<>> THEN <<cur>>
  ELSE IF Head(s) = sep THEN <<cur>> \o SplitFrom(Tail(s), sep, <<>>)
  ELSE SplitFrom(Tail(s), sep, Append(cur, Head(s)))

Split(s, sep) == SplitFrom(s, sep, <<>>)

\* Array.prototype.join
RECURSIVE Join(_, _)
Join(parts, sep) ==
  IF parts = <<>> THEN <<>>
  ELSE IF Len(parts) = 1 THEN parts[1]
  ELSE parts[1] \o sep \o Join(Tail(parts), sep)

\* String.prototype.includes
Includes(s, q) ==
  \E i \in 0..(Len(s) - Len(q)) : SubSeq(s, i + 1, i + Len(q)) = q

\* The < of two strings: by code units, a proper prefix first.
RECURSIVE StrLess(_, _)
StrLess(a, b) ==
  IF b = <<>> THEN FALSE
  ELSE IF a = <<>> THEN TRUE
  ELSE IF Head(a) = Head(b) THEN StrLess(Tail(a), Tail(b))
  ELSE Code(Head(a)) < Code(Head(b))

\* [x, y].sort() with the default comparator.
SortPair(x, y) == IF StrLess(y, x) THEN <<y, x>> ELSE <<x, y>>

\* map(trim)
MapTrim(parts) == [i \in 1..Len(parts) |-> Trim(parts[i])]

NonEmpty(x) == x # <<>>

\* filter(Boolean) on an array of strings
FilterBoolean(parts) == SelectSeq(parts, NonEmpty)

\* SplitTrimFilter without the filter.
SplitTrimKeep(s) == MapTrim(Split(s, ";"))

\* split(';').map(trim).filter(Boolean)
SplitTrimFilter(s) == FilterBoolean(MapTrim(Split(s, ";")))

\* The set of elements of an array.
Range(f) == {f[i] : i \in DOMAIN f}

\* Array.prototype.includes
ArrayIncludes(arr, x) == \E i \in DOMAIN arr : arr[i] = x

(***************************************************************************)
(* String constants of the data.                                           *)
(***************************************************************************)
sEmpty == <<>>

sSemi == <<";">>

sAlice == <<"A", "l", "i", "c", "e">>

sAli == <<"A", "l", "i">>

sBob == <<"B", "o", "b">>

sCarol == <<"C", "a", "r", "o", "l">>

sUSA == <<"U", "S", "A">>

sUK == <<"U", "K">>

sIndia == <<"I", "n", "d", "i", "a">>

sUnknown == <<"U", "n", "k", "n", "o", "w", "n">>

sFairness == <<"F", "a", "i", "r", "n", "e", "s", "s">>

sNLP == <<"N", "L", "P">>

\* Six one-letter names in one cell.
sSix == <<"a", ";", "b", ";", "c", ";", "d", ";", "e", ";", "f">>

sMIT == <<"M", "I", "T">>

sKU == <<"K", "U">>

sNepal == <<"N", "e", "p", "a", "l">>

s2020 == <<"2", "0", "2", "0">>

s2021 == <<"2", "0", "2", "1">>

sNA == <<"n", "/", "a">>


sT1 == <<"T", "1">>

sT2 == <<"T", "\"", ",">>

sT3 == <<"T", "\n", "3">>

sT4 == <<"T", ",", "4">>

sD1 == <<"d", "1">>

sD2 == <<"d", "2">>

s1 == <<"1">>

s2 == <<"2">>

s3 == <<"3">>

s4 == <<"4">>

s5 == <<"5">>

s6 == <<"6">>

(***************************************************************************)
(* Paper records: one row of papers.csv as PapaParse delivers it with      *)
(* header: true, a mapping from the column name to the cell text.          *)
(***************************************************************************)
Columns ==
  {"SN", "Paper Title", "Authors", "DOI", "Year", "Author Regions",
   "Affiliations", "Focus Region", "Domain"}

Paper(sn, title, authors, doi, year, regions, affiliations, focus, domain) ==
  [c \in Columns |->
     CASE c = "SN" -> sn
       [] c = "Paper Title" -> title
       [] c = "Authors" -> authors
       [] c = "DOI" -> doi
       [] c = "Year" -> year
       [] c = "Author Regions" -> regions
       [] c = "Affiliations" -> affiliations
       [] c = "Focus Region" -> focus
       [] c = "Domain" -> domain]

\* String(paper[h] || ""): a column the row does not have reads as "".
Field(p, h) == IF h \in DOMAIN p THEN p[h] ELSE <<>>

\* The rows the dashboard page is loaded with.
DashPool ==
  { Paper(s1, sT1, sAlice \o sSemi \o sBob, sD1, s2020,
          sUSA \o sSemi \o sUK, sMIT \o sSemi \o sKU, sNepal, sFairness),
    Paper(s2, sT2, sBob \o sSemi \o sCarol, sD2, s2021,
          sUK \o sSemi \o sIndia, sKU \o sSemi \o sMIT, sIndia, sFairness),
    Paper(s3, sT3, sAli, sEmpty, s2020,
          sUSA, sMIT, sEmpty, ToLowerCase(sFairness)),
    Paper(s4, sT4, sCarol, sEmpty, sNA,
          sIndia \o sSemi \o sUK, sEmpty, sIndia, sEmpty) }

\* The rows the analytics page is loaded with.
AnalyticsPool ==
  { Paper(s1, sT1, sAlice \o sSemi \o sBob, sD1, s2020,
          sUSA \o sSemi \o sUK, sMIT \o sSemi \o sKU, sNepal, sFairness),
    Paper(s2, sT2, sBob \o sSemi \o sCarol, sD2, s2021,
          sUK \o sSemi \o sIndia, sKU \o sSemi \o sMIT, sIndia, sFairness),
    Paper(s3, sT3, sAlice \o sSemi \o sBob \o sSemi \o sAlice, sEmpty, s2020,
          sUSA \o sSemi \o sUK \o sSemi \o sUSA, sMIT \o sSemi \o sMIT,
          sEmpty, ToLowerCase(sFairness)),
    Paper(s4, sT4, sCarol, sEmpty, sNA,
          sIndia \o sSemi \o sUK, sEmpty, sIndia, sEmpty) }

\* The rows the analytics page is loaded with when the nodes of its graph
\* are dragged.
GraphPool == {p \in AnalyticsPool : p["SN"] # s3}

\* Rows for the analytics page whose author list has no, one, two, three,
\* five and six entries, with empty entries in the lists: no Authors cell;
\* semicolons at both ends and a blank segment; an empty region in the
\* middle and an empty first affiliation; a region list shorter than the
\* author list.
ListPool ==
  { Paper(s1, sT1, sEmpty, sEmpty, s2020, sEmpty, sEmpty, sNepal, sFairness),
    Paper(s2, sT1, sSemi \o sBob \o sSemi \o <<" ">> \o sSemi, sEmpty, s2020,
          sUK, sKU, sNepal, sFairness),
    Paper(s3, sT1, sCarol \o sSemi \o sBob \o sSemi \o sAlice, sEmpty, s2020,
          sIndia \o sSemi \o sSemi \o sUK, sSemi \o sKU, sNepal, sFairness),
    Paper(s4, sT1, sAlice \o sSemi \o sBob, sEmpty, s2021,
          sUSA, sMIT \o sSemi \o sKU, sNepal, sFairness),
    Paper(s5, sT1,
          sAlice \o sSemi \o sBob \o sSemi \o sCarol \o sSemi \o sBob
            \o sSemi \o sAlice,
          sEmpty, s2021, sUSA \o sSemi \o sUK, sMIT, sNepal, sFairness),
    Paper(s6, sT1,
          sAlice \o sSemi \o sBob \o sSemi \o sCarol \o sSemi \o sCarol
            \o sSemi \o sBob \o sSemi \o sAlice,
          sEmpty, s2021, sUSA \o sSemi \o sUK, sMIT, sNepal, sFairness) }

\* Rows for the world map of the dashboard page: the first author of the
\* first row is in the UK, the second row has a UK author who is not the
\* first and another domain, the third row has no Focus Region.
MapPool ==
  { Paper(s1, sT1, sAlice, sD1, s2021, sUK, sKU, sNepal, sNLP),
    Paper(s2, sT4, sBob \o sSemi \o sCarol, sD2, s2020,
          sUSA \o sSemi \o sUK, sMIT \o sSemi \o sKU, sNepal, sFairness),
    Paper(s3, sT3, sCarol, sEmpty, s2020, sIndia, sMIT, sEmpty, sFairness) }

\* Rows for the analytics page with more than ten rows in the author
\* statistics table: six authors in each of two domains.
AuthorsPool ==
  { Paper(s1, sT1, sSix, sEmpty, s2020, sUK, sKU, sNepal, sFairness),
    Paper(s2, sT1, sSix, sEmpty, s2021, sUK, sKU, sNepal, sNLP) }

\* Rows for the analytics page with more than ten rows in the institution
\* statistics table: six affiliations in each of two domains.
InstPool ==
  { Paper(s1, sT1, sAlice, sEmpty, s2020, sUK, sSix, sNepal, sFairness),
    Paper(s2, sT1, sAlice, sEmpty, s2021, sUK, sSix, sNepal, sNLP) }

\* split(';').map(trim).filter(Boolean) of a cell, looked up in a table for
\* the cell texts of the two pools and computed for any other text.
PoolCells ==
  UNION {Range(p) : p \in DashPool \cup AnalyticsPool \cup ListPool
                            \cup MapPool \cup AuthorsPool \cup InstPool}

SplitCells == [s \in PoolCells |-> SplitTrimFilter(s)]

SplitCell(s) == IF s \in PoolCells THEN SplitCells[s] ELSE SplitTrimFilter(s)

\* Every array of at most MaxPapers rows of a pool, in the order of the
\* serial numbers of papers.csv.
Datasets(pool) ==
  {data \in UNION {[1..n -> pool] : n \in 0..MaxPapers} :
     \A i, j \in DOMAIN data : i < j => StrLess(data[i]["SN"], data[j]["SN"])}

(***************************************************************************)
(* State.                                                                  *)
(***************************************************************************)
VARIABLES
  page,                 \* the mounted page: "dashboard" or "advanced"
  pc,                   \* position of the load's promise chain
  papers,               \* useState<Paper[]>([])
  loading,              \* useState(true)
  error,                \* useState<string | null>(null)
  searchQuery,          \* papers table: search box
  filterYear,           \* papers table: year select
  filterRegion,         \* papers table: author-region select
  filterDomain,         \* papers table: domain select
  filterAuthor,         \* papers table: author select
  sortConfig,           \* papers table: { key, direction } | null
  currentPage,          \* papers table: page number
  useFirstAuthorOnly,   \* world map: author mapping mode
  modalPaper,           \* index in papers of the opened paper, 0 for null
  selectedAuthors,      \* analytics: multi-select values
  selectedDomains,
  selectedRegions,
  selectedInstitutions,
  authorStatsPage,      \* analytics: page of the author statistics table
  instStatsPage,        \* analytics: page of the institution statistics table
  rfNodes,              \* co-author graph: displayed nodes
  rfEdges,              \* co-author graph: displayed edges
  download              \* the text handed to saveAs by the last step

loadVars == <<pc, papers, loading, error>>

tableVars ==
  <<searchQuery, filterYear, filterRegion, filterDomain, filterAuthor,
    sortConfig, currentPage, useFirstAuthorOnly, modalPaper>>

analyticsVars ==
  <<selectedAuthors, selectedDomains, selectedRegions, selectedInstitutions,
    authorStatsPage, instStatsPage, rfNodes, rfEdges>>

vars == <<page, loadVars, tableVars, analyticsVars, download>>

\* error === null
Null == "<null>"

\* No file was saved by the last step (a saved file has a header line).
NoDownload == [filename |-> <<>>, csv |-> <<>>]

\* sortConfig === null
NoSort == [key |-> "<null>", direction |-> "asc"]

(***************************************************************************)
(* The load of papers.csv (useEffect with an empty dependency list).       *)
(***************************************************************************)
msgNotFound == "CSV not found"

msgEmpty == "CSV is empty"

msgParse == "Failed to parse papers.csv. Please check the file format."

msgLoad == "Failed to load papers.csv"

\* What fetch() or res.text() can reject with: an Error carrying the
\* browser's message, or a value that is no Error.
Rejections ==
  { [isError |-> TRUE, message |-> "Failed to fetch"],
    [isError |-> FALSE, message |-> ""] }

\* The response bodies: empty, blank, and a text with content.
CsvTexts == { <<>>, <<" ", "\n">>, <<"S", "N", "\n", "1">> }

\* CatchHandler without its setError call.
CatchHandlerNoError(err) ==
  /\ loading' = FALSE
  /\ papers' = <<>>
  /\ error' = error
  /\ pc' = "failed"

\* CatchHandler that issues the fetch again.
CatchHandlerRetry(err) ==
  /\ loading' = FALSE
  /\ papers' = <<>>
  /\ error' = IF err.isError THEN err.message ELSE msgLoad
  /\ pc' = "fetch"

\* .catch((err) => { setLoading(false); setPapers([]); setError(...) })
CatchHandler(err) ==
  /\ loading' = FALSE
  /\ papers' = <<>>
  /\ error' = IF err.isError THEN err.message ELSE msgLoad
  /\ pc' = "failed"

\* fetch() rejects.
FetchReject ==
  /\ pc = "fetch"
  /\ \E err \in Rejections : CatchHandler(err)
  /\ UNCHANGED <<page, tableVars, analyticsVars>>
  /\ download' = NoDownload

\* .then((res) => { if (!res.ok) throw new Error("CSV not found");
\*                  return res.text(); })
FetchResolve ==
  /\ pc = "fetch"
  /\ \E ok \in BOOLEAN :
       IF ~ok
         THEN CatchHandler([isError |-> TRUE, message |-> msgNotFound])
         ELSE /\ pc' = "text"
              /\ UNCHANGED <<papers, loading, error>>
  /\ UNCHANGED <<page, tableVars, analyticsVars>>
  /\ download' = NoDownload

\* res.text() rejects.
TextReject ==
  /\ pc = "text"
  /\ \E err \in Rejections : CatchHandler(err)
  /\ UNCHANGED <<page, tableVars, analyticsVars>>
  /\ download' = NoDownload

\* .then((csvText) => { if (!csvText.trim()) throw new Error("CSV is empty");
\*                      Papa.parse(csvText, {...}) })
TextResolve ==
  /\ pc = "text"
  /\ \E csvText \in CsvTexts :
       IF Trim(csvText) = <<>>
         THEN CatchHandler([isError |-> TRUE, message |-> msgEmpty])
         ELSE /\ pc' = "parse"
              /\ UNCHANGED <<papers, loading, error>>
  /\ UNCHANGED <<page, tableVars, analyticsVars>>
  /\ download' = NoDownload

(***************************************************************************)
(* Numbers and sorting.                                                    *)
(***************************************************************************)
\* Stands for NaN; every number of the model is non-negative.
NaN == 0 - 1

RECURSIVE DigitsValue(_, _)
DigitsValue(s, acc) ==
  IF s = <<>> THEN acc
  ELSE DigitsValue(Tail(s), 10 * acc + (Code(Head(s)) - Code("0")))

\* Number(string) on the texts of the model: surrounding white space is
\* dropped, "" is 0, a run of digits is its decimal value, anything else NaN.
ToNumber(s) ==
  LET t == Trim(s)
  IN  IF t = <<>> THEN 0
      ELSE IF \A i \in 1..Len(t) : IsDigit(t[i]) THEN DigitsValue(t, 0)
      ELSE NaN

\* The pairs of elements of seq on which a comparator is negative.
Pairs(seq) == Range(seq) \X Range(seq)

\* Array.prototype.sort with a consistent comparator (stable); negative is
\* the set of the pairs <<a, b>> on which the comparator is negative.
StableSort(seq, negative) ==
  LET n == Len(seq)
      rank(i) ==
        Cardinality({j \in 1..n :
                       \/ <<seq[j], seq[i]>> \in negative
                       \/ (<<seq[i], seq[j]>> \notin negative /\ j < i)}) + 1
  IN  [k \in 1..n |-> seq[CHOOSE i \in 1..n : rank(i) = k]]

\* Array.prototype.slice(0, n)
Slice0(seq, n) == SubSeq(seq, 1, IF Len(seq) < n THEN Len(seq) ELSE n)

\* Index of the entry with the given key in an insertion-ordered map, or 0.
IndexOfKey(entries, key) ==
  IF \E k \in DOMAIN entries : entries[k].key = key
    THEN CHOOSE k \in DOMAIN entries : entries[k].key = key
    ELSE 0

(***************************************************************************)
(* AdvancedAnalytics: processed papers and the filter bar.                 *)
(***************************************************************************)
\* processedPapers: one element of papers.map(...)
Processed(p) ==
  [ raw |-> p,
    year |-> LET n == ToNumber(Field(p, "Year"))
             IN  IF n = NaN THEN 0 ELSE n,
    authors |-> SplitCell(Field(p, "Authors")),
    affiliations |-> SplitCell(Field(p, "Affiliations")),
    authorRegions |-> SplitCell(Field(p, "Author Regions")),
    domain |-> Trim(Field(p, "Domain")),
    focusRegion |-> Trim(Field(p, "Focus Region")) ]

processedPapers(ps) == [i \in 1..Len(ps) |-> Processed(ps[i])]

\* The options of the four multi-selects.
RECURSIVE UnionOver(_, _)
UnionOver(ps, col) ==
  IF ps = <<>> THEN {}
  ELSE Range(SplitCell(Field(Head(ps), col))) \cup UnionOver(Tail(ps), col)

allAuthors(ps) == UnionOver(ps, "Authors")

allRegions(ps) == UnionOver(ps, "Author Regions")

allInstitutions(ps) == UnionOver(ps, "Affiliations")

allDomains(ps) ==
  {Trim(Field(ps[i], "Domain")) : i \in DOMAIN ps} \ {<<>>}

\* AnalyticsMatch without the institution test.
AnalyticsMatchNoInstitution(pp, selA, selD, selR, selI) ==
  LET authorMatch ==
        selA = {} \/ \E i \in DOMAIN pp.authors : pp.authors[i] \in selA
      domainMatch == selD = {} \/ pp.domain \in selD
      regionMatch ==
        selR = {} \/ \E i \in DOMAIN pp.authorRegions : pp.authorRegions[i] \in selR
  IN  authorMatch /\ domainMatch /\ regionMatch

\* The predicate of filteredPapers' filter callback.
AnalyticsMatch(pp, selA, selD, selR, selI) ==
  LET authorMatch ==
        selA = {} \/ \E i \in DOMAIN pp.authors : pp.authors[i] \in selA
      domainMatch == selD = {} \/ pp.domain \in selD
      regionMatch ==
        selR = {} \/ \E i \in DOMAIN pp.authorRegions : pp.authorRegions[i] \in selR
      institutionMatch ==
        selI = {} \/ \E i \in DOMAIN pp.affiliations : pp.affiliations[i] \in selI
  IN  authorMatch /\ domainMatch /\ regionMatch /\ institutionMatch

\* filteredPapers of AdvancedAnalytics
AnalyticsFiltered(ps, selA, selD, selR, selI) ==
  LET keep(pp) == AnalyticsMatch(pp, selA, selD, selR, selI)
  IN  SelectSeq(processedPapers(ps), keep)

filteredPapersA ==
  AnalyticsFiltered(papers, selectedAuthors, selectedDomains, selectedRegions,
                    selectedInstitutions)

(***************************************************************************)
(* CoAuthorNetworkGraph: nodes and edges of useMemo.                       *)
(***************************************************************************)
\* regions[idx] || 'Unknown' (idx counted from 1 here)
AtOrUnknown(arr, idx) ==
  IF idx \in DOMAIN arr /\ arr[idx] # <<>> THEN arr[idx] ELSE sUnknown

\* EdgeKey without the sort.
EdgeKeyUnsorted(a, b) == Join(<<a, b>>, <<"|", "|">>)

\* [a, b].sort().join('||')
EdgeKey(a, b) == Join(SortPair(a, b), <<"|", "|">>)

\* authors.forEach((author, idx) => { if (!authorMap.has(author)) ... })
RECURSIVE AddAuthors(_, _, _, _, _)
AddAuthors(authorMap, authors, regions, affiliations, idx) ==
  IF idx > Len(authors) THEN authorMap
  ELSE AddAuthors(
         IF IndexOfKey(authorMap, authors[idx]) # 0 THEN authorMap
         ELSE Append(authorMap,
                     [ key |-> authors[idx],
                       region |-> AtOrUnknown(regions, idx),
                       affiliation |-> AtOrUnknown(affiliations, idx) ]),
         authors, regions, affiliations, idx + 1)

\* if (!edgeMap.has(key)) edgeMap.set(key, {source, target, count: 0});
\* edgeMap.get(key).count++
CountEdge(edgeMap, a, b) ==
  LET key == EdgeKey(a, b)
      k == IndexOfKey(edgeMap, key)
  IN  IF k = 0
        THEN Append(edgeMap,
                    [key |-> key, source |-> a, target |-> b, count |-> 1])
        ELSE [edgeMap EXCEPT ![k].count = @ + 1]

\* for (i = 0; i < authors.length; i++) for (j = i + 1; ...; j++)
RECURSIVE AddPairs(_, _, _, _)
AddPairs(edgeMap, authors, i, j) ==
  IF i > Len(authors) THEN edgeMap
  ELSE IF j > Len(authors) THEN AddPairs(edgeMap, authors, i + 1, i + 2)
  ELSE CHOOSE after \in
         {AddPairs(counted, authors, i, j + 1) :
          counted \in {CountEdge(edgeMap, authors[i], authors[j])}} : TRUE

\* papers.forEach(paper => {...}): the two maps after the loop.  The graph
\* reads the raw columns of the rows it is given.
RECURSIVE GraphMaps(_, _, _)
GraphMaps(rows, authorMap, edgeMap) ==
  IF rows = <<>> THEN [authorMap |-> authorMap, edgeMap |-> edgeMap]
  ELSE LET paper == Head(rows)
           authors == SplitCell(Field(paper, "Authors"))
           regions == SplitCell(Field(paper, "Author Regions"))
           affiliations == SplitCell(Field(paper, "Affiliations"))
       IN  CHOOSE after \in
             {GraphMaps(Tail(rows), am, em) :
              am \in {AddAuthors(authorMap, authors, regions, affiliations, 1)},
              em \in {AddPairs(edgeMap, authors, 1, 2)}} : TRUE

\* edgeMap after the loop: one entry {source, target, count} per key.
EdgeMapOf(rows) == GraphMaps(rows, <<>>, <<>>).edgeMap

\* The nodes: one per key of authorMap, placed at index idx of total on the
\* circle (angle idx * 2 * pi / total).
GraphNodes(rows) ==
  LET authorMap == GraphMaps(rows, <<>>, <<>>).authorMap
  IN  [idx \in 1..Len(authorMap) |->
         [ id |-> authorMap[idx].key,
           region |-> authorMap[idx].region,
           affiliation |-> authorMap[idx].affiliation,
           position |-> <<idx - 1, Len(authorMap)>> ]]

\* The edges: one per value of edgeMap; count shows as the label (when
\* above 1), the animation flag and the stroke width.
GraphEdges(rows) ==
  LET edgeMap == GraphMaps(rows, <<>>, <<>>).edgeMap
  IN  [k \in 1..Len(edgeMap) |->
         [ id |-> edgeMap[k].source \o <<"-">> \o edgeMap[k].target,
           source |-> edgeMap[k].source,
           target |-> edgeMap[k].target,
           label |-> IF edgeMap[k].count > 1 THEN edgeMap[k].count ELSE 0,
           animated |-> edgeMap[k].count > 2,
           strokeWidth |-> IF 1 + edgeMap[k].count < 6
                             THEN 1 + edgeMap[k].count ELSE 6 ]]

\* The rows AdvancedAnalytics passes to the graph: papers={filteredPapers}.
RawRows(pps) == [i \in 1..Len(pps) |-> pps[i].raw]

\* The Recent Papers table: filteredPapers.sort((a, b) => b.year - a.year)
\* sorts the filtered array itself; the value is the array after the sort.
YearAfter(a, b) == a.year > b.year

SortedInPlace(pps) ==
  LET keyed == [i \in DOMAIN pps |-> [at |-> i, year |-> pps[i].year]]
      Sorted(seq) == StableSort(seq, {c \in Pairs(seq) : YearAfter(c[1], c[2])})
  IN  CHOOSE after \in {[k \in DOMAIN pps |-> pps[sorted[k].at]] :
                          sorted \in {Sorted(keyed)}} : TRUE

\* <CoAuthorNetworkGraph papers={filteredPapers} />: the graph is rendered
\* after its parent, whose render has sorted the array by then.
GraphPapers(pps) == RawRows(SortedInPlace(pps))

(***************************************************************************)
(* AdvancedAnalytics: grouped views.                                       *)
(***************************************************************************)
\* paper.domain || 'Unknown'
DomainOrUnknown(pp) == IF pp.domain # <<>> THEN pp.domain ELSE sUnknown

\* yearData: the reduce over processedPapers, keyed by the numeric year.
RECURSIVE YearReduce(_, _)
YearReduce(pps, acc) ==
  IF pps = <<>> THEN acc
  ELSE LET paper == Head(pps)
           k == IndexOfKey(acc, paper.year)
           acc1 == IF k # 0 THEN acc
                   ELSE Append(acc, [key |-> paper.year, year |-> paper.year,
                                     count |-> 0, domains |-> {}])
           k1 == IndexOfKey(acc1, paper.year)
       IN  IF paper.year = 0 THEN YearReduce(Tail(pps), acc)
           ELSE YearReduce(Tail(pps),
                  [acc1 EXCEPT ![k1].count = @ + 1,
                               ![k1].domains = @ \cup {DomainOrUnknown(paper)}])

YearBefore(a, b) == a.year < b.year

\* yearDataArray: Object.values(yearData).map(...).sort((a, b) => a.year - b.year)
yearDataArray(ps) ==
  LET acc == YearReduce(processedPapers(ps), <<>>)
      mapped == [k \in 1..Len(acc) |->
                   [year |-> acc[k].year, count |-> acc[k].count,
                    domains |-> Cardinality(acc[k].domains)]]
  IN  StableSort(mapped, {c \in Pairs(mapped) : YearBefore(c[1], c[2])})

\* domainAnalysis: the reduce over processedPapers, keyed by the trimmed
\* domain, 'Unknown' when empty.
RECURSIVE DomainReduce(_, _)
DomainReduce(pps, acc) ==
  IF pps = <<>> THEN acc
  ELSE LET domain == DomainOrUnknown(Head(pps))
           k == IndexOfKey(acc, domain)
           acc1 == IF k # 0 THEN acc
                   ELSE Append(acc, [key |-> domain, domain |-> domain,
                                     count |-> 0])
           k1 == IndexOfKey(acc1, domain)
       IN  DomainReduce(Tail(pps), [acc1 EXCEPT ![k1].count = @ + 1])

CountAfter(a, b) == a.count > b.count

TopDomains == 10

\* domainDataArray: Object.values(domainAnalysis).sort(desc count).slice(0, 10)
domainDataArray(ps) ==
  LET acc == DomainReduce(processedPapers(ps), <<>>)
  IN  Slice0(StableSort(acc, {c \in Pairs(acc) : CountAfter(c[1], c[2])}),
             TopDomains)

\* collaborationPatterns: the type of one paper, with the upper end of
\* 'Small Team' left out.
CollaborationTypeBelow(paper) ==
  LET authorCount == IF Len(paper.authors) = 0 THEN 1 ELSE Len(paper.authors)
  IN  IF authorCount = 1 THEN "Solo"
      ELSE IF authorCount = 2 THEN "Duo"
      ELSE IF authorCount < 5 THEN "Small Team"
      ELSE "Large Team"

\* const authorCount = paper.authors.length || 1; collaborationType = ...
CollaborationType(paper) ==
  LET authorCount == IF Len(paper.authors) = 0 THEN 1 ELSE Len(paper.authors)
  IN  IF authorCount = 1 THEN "Solo"
      ELSE IF authorCount = 2 THEN "Duo"
      ELSE IF authorCount <= 5 THEN "Small Team"
      ELSE "Large Team"

\* collaborationPatterns: the reduce over processedPapers.
RECURSIVE CollaborationReduce(_, _)
CollaborationReduce(pps, acc) ==
  IF pps = <<>> THEN acc
  ELSE LET type == CollaborationType(Head(pps))
           k == IndexOfKey(acc, type)
           acc1 == IF k # 0 THEN acc
                   ELSE Append(acc, [key |-> type, type |-> type, count |-> 0,
                                     papers |-> <<>>])
           k1 == IndexOfKey(acc1, type)
       IN  CollaborationReduce(
             Tail(pps),
             [acc1 EXCEPT ![k1].count = @ + 1,
                          ![k1].papers = Append(@, Head(pps))])

collaborationPatterns(ps) == CollaborationReduce(processedPapers(ps), <<>>)

\* authorRegionAnalysis: authors.forEach((author, idx) => {...}) for one
\* paper, keyed by authorRegions[idx] || 'Unknown'.
RECURSIVE RegionForEach(_, _, _)
RegionForEach(acc, paper, idx) ==
  IF idx > Len(paper.authors) THEN acc
  ELSE LET authorRegion == AtOrUnknown(paper.authorRegions, idx)
           k == IndexOfKey(acc, authorRegion)
           acc1 == IF k # 0 THEN acc
                   ELSE Append(acc, [key |-> authorRegion, region |-> authorRegion,
                                     authors |-> {}, papers |-> 0, domains |-> {}])
           k1 == IndexOfKey(acc1, authorRegion)
       IN  RegionForEach(
             [acc1 EXCEPT ![k1].authors = @ \cup {paper.authors[idx]},
                          ![k1].papers = @ + 1,
                          ![k1].domains = @ \cup {DomainOrUnknown(paper)}],
             paper, idx + 1)

RECURSIVE RegionReduce(_, _)
RegionReduce(pps, acc) ==
  IF pps = <<>> THEN acc
  ELSE RegionReduce(Tail(pps), RegionForEach(acc, Head(pps), 1))

authorRegionAnalysis(pps) == RegionReduce(pps, <<>>)

\* authorAnalysis: authors.forEach((author, idx) => {...}) for one paper.
RECURSIVE AuthorForEach(_, _, _)
AuthorForEach(acc, paper, idx) ==
  IF idx > Len(paper.authors) THEN acc
  ELSE LET author == paper.authors[idx]
           authorRegion == AtOrUnknown(paper.authorRegions, idx)
           k == IndexOfKey(acc, author)
           acc1 == IF k # 0 THEN acc
                   ELSE Append(acc, [key |-> author, name |-> author,
                                     papers |-> 0, domains |-> {},
                                     regions |-> {}, collaborations |-> {},
                                     primaryRegion |-> authorRegion])
           k1 == IndexOfKey(acc1, author)
       IN  AuthorForEach(
             [acc1 EXCEPT ![k1].papers = @ + 1,
                          ![k1].domains = @ \cup {DomainOrUnknown(paper)},
                          ![k1].regions = @ \cup {authorRegion},
                          ![k1].collaborations =
                             @ \cup (Range(paper.authors) \ {author})],
             paper, idx + 1)

RECURSIVE AuthorReduce(_, _)
AuthorReduce(pps, acc) ==
  IF pps = <<>> THEN acc
  ELSE AuthorReduce(Tail(pps), AuthorForEach(acc, Head(pps), 1))

\* authorAnalysis over the filtered papers
authorAnalysis(pps) == AuthorReduce(pps, <<>>)

PapersAfter(a, b) == a.papers > b.papers

TopAuthors == 15

\* authorDataArray: map, sort by papers descending, slice(0, 15)
authorDataArray(pps) ==
  LET acc == authorAnalysis(pps)
      mapped == [k \in 1..Len(acc) |->
                   [ name |-> acc[k].name,
                     papers |-> acc[k].papers,
                     domainCount |-> Cardinality(acc[k].domains),
                     regionCount |-> Cardinality(acc[k].regions),
                     collaborationCount |-> Cardinality(acc[k].collaborations),
                     primaryRegion |-> acc[k].primaryRegion ]]
  IN  Slice0(StableSort(mapped, {c \in Pairs(mapped) : PapersAfter(c[1], c[2])}),
             TopAuthors)

\* affiliationAnalysis: paper.affiliations.forEach((affiliation) => {...})
\* for one paper.
RECURSIVE AffiliationForEach(_, _, _)
AffiliationForEach(acc, paper, idx) ==
  IF idx > Len(paper.affiliations) THEN acc
  ELSE LET affiliation == paper.affiliations[idx]
           k == IndexOfKey(acc, affiliation)
           acc1 == IF k # 0 THEN acc
                   ELSE Append(acc, [key |-> affiliation, name |-> affiliation,
                                     papers |-> 0, domains |-> {},
                                     collaborators |-> {}])
           k1 == IndexOfKey(acc1, affiliation)
       IN  AffiliationForEach(
             [acc1 EXCEPT ![k1].papers = @ + 1,
                          ![k1].domains = @ \cup {DomainOrUnknown(paper)},
                          ![k1].collaborators =
                             @ \cup (Range(paper.affiliations) \ {affiliation})],
             paper, idx + 1)

RECURSIVE AffiliationReduce(_, _)
AffiliationReduce(pps, acc) ==
  IF pps = <<>> THEN acc
  ELSE AffiliationReduce(Tail(pps), AffiliationForEach(acc, Head(pps), 1))

affiliationAnalysis(pps) == AffiliationReduce(pps, <<>>)

TopAffiliations == 15

\* Object.values(affiliationAnalysis).map(...).sort((a, b) => b.papers -
\* a.papers).slice(0, 15)
affiliationDataArray(pps) ==
  LET acc == affiliationAnalysis(pps)
      mapped == [k \in 1..Len(acc) |->
                   [ name |-> acc[k].name,
                     papers |-> acc[k].papers,
                     collaboratorCount |-> Cardinality(acc[k].collaborators),
                     domainCount |-> Cardinality(acc[k].domains) ]]
  IN  Slice0(StableSort(mapped, {c \in Pairs(mapped) : PapersAfter(c[1], c[2])}),
             TopAffiliations)

\* ' <-> ' between the two regions of a pair key.
sArrow == <<" ", "<->", " ">>

\* [region1, region2].sort().join(' <-> ')
PairKey(region1, region2) == Join(SortPair(region1, region2), sArrow)

sunknown == ToLowerCase(sUnknown)

KnownRegion(r) == r # <<>> /\ r # sunknown

\* paper.authorRegions.map(r => r.trim().toLowerCase())
\*                    .filter(r => r && r !== 'unknown')
LoweredRegions(pp) ==
  SelectSeq([i \in 1..Len(pp.authorRegions) |->
               ToLowerCase(Trim(pp.authorRegions[i]))], KnownRegion)

\* authors.map((_, idx) => authorRegions[idx] || '')
RegionMapOf(pp) ==
  LET authorRegions == LoweredRegions(pp)
  IN  [idx \in 1..Len(pp.authors) |->
         IF idx \in DOMAIN authorRegions THEN authorRegions[idx] ELSE <<>>]

\* The two nested loops over regionMap for one paper; st carries acc and
\* seenPairs.
RECURSIVE CrossLoops(_, _, _, _, _)
CrossLoops(st, regionMap, domain, i, j) ==
  IF i > Len(regionMap) THEN st
  ELSE IF j > Len(regionMap) THEN CrossLoops(st, regionMap, domain, i + 1, i + 2)
  ELSE LET region1 == regionMap[i]
           region2 == regionMap[j]
           pair == PairKey(region1, region2)
           k == IndexOfKey(st.acc, pair)
           acc1 == IF k # 0 THEN st.acc
                   ELSE Append(st.acc, [key |-> pair, regions |-> pair,
                                        papers |-> 0, domains |-> {}])
           k1 == IndexOfKey(acc1, pair)
       IN  IF region1 # <<>> /\ region2 # <<>> /\ region1 # region2
              /\ pair \notin st.seenPairs
             THEN CrossLoops(
                    [ acc |-> [acc1 EXCEPT ![k1].papers = @ + 1,
                                           ![k1].domains = @ \cup {domain}],
                      seenPairs |-> st.seenPairs \cup {pair} ],
                    regionMap, domain, i, j + 1)
             ELSE CrossLoops(st, regionMap, domain, i, j + 1)

RECURSIVE CrossReduce(_, _)
CrossReduce(pps, acc) ==
  IF pps = <<>> THEN acc
  ELSE CrossReduce(
         Tail(pps),
         CrossLoops([acc |-> acc, seenPairs |-> {}], RegionMapOf(Head(pps)),
                    DomainOrUnknown(Head(pps)), 1, 2).acc)

\* crossRegionCollaboration over the filtered papers
crossRegionCollaboration(pps) == CrossReduce(pps, <<>>)

\* r.charAt(0).toUpperCase() + r.slice(1)
Capitalize(r) == IF r = <<>> THEN r ELSE <<UpperChar(Head(r))>> \o Tail(r)

\* String.prototype.split with a separator of several characters.
RECURSIVE SplitOnFrom(_, _, _)
SplitOnFrom(s, sep, cur) ==
  IF s = <<>> THEN <<cur>>
  ELSE IF Len(s) >= Len(sep) /\ SubSeq(s, 1, Len(sep)) = sep
    THEN <<cur>> \o SplitOnFrom(SubSeq(s, Len(sep) + 1, Len(s)), sep, <<>>)
  ELSE SplitOnFrom(Tail(s), sep, Append(cur, Head(s)))

SplitOn(s, sep) == SplitOnFrom(s, sep, <<>>)

TopPairs == 10

\* crossRegionDataArray: the displayed rows, pair names capitalized, sorted
\* by papers descending, first 10.
crossRegionDataArray(pps) ==
  LET acc == crossRegionCollaboration(pps)
      shown(regions) ==
        LET parts == SplitOn(regions, sArrow)
        IN  Join([i \in 1..Len(parts) |-> Capitalize(parts[i])], sArrow)
      mapped == [k \in 1..Len(acc) |->
                   [ regions |-> shown(acc[k].regions),
                     papers |-> acc[k].papers,
                     domainCount |-> Cardinality(acc[k].domains) ]]
  IN  Slice0(StableSort(mapped, {c \in Pairs(mapped) : PapersAfter(c[1], c[2])}),
             TopPairs)

(***************************************************************************)
(* EnhancedAnalytics: the earlier cross-region view, over processedPapers, *)
(* without seenPairs.                                                      *)
(***************************************************************************)
RECURSIVE EnhancedCrossLoops(_, _, _, _)
EnhancedCrossLoops(acc, pp, i, j) ==
  IF i > Len(pp.authors) THEN acc
  ELSE IF j > Len(pp.authors) THEN EnhancedCrossLoops(acc, pp, i + 1, i + 2)
  ELSE LET region1 == AtOrUnknown(pp.authorRegions, i)
           region2 == AtOrUnknown(pp.authorRegions, j)
           pair == PairKey(region1, region2)
           k == IndexOfKey(acc, pair)
           acc1 == IF k # 0 THEN acc
                   ELSE Append(acc, [key |-> pair, regions |-> pair,
                                     papers |-> 0, domains |-> {}])
           k1 == IndexOfKey(acc1, pair)
       IN  IF region1 # region2
             THEN EnhancedCrossLoops(
                    [acc1 EXCEPT ![k1].papers = @ + 1,
                                 ![k1].domains = @ \cup {DomainOrUnknown(pp)}],
                    pp, i, j + 1)
             ELSE EnhancedCrossLoops(acc, pp, i, j + 1)

RECURSIVE EnhancedCrossReduce(_, _)
EnhancedCrossReduce(pps, acc) ==
  IF pps = <<>> THEN acc
  ELSE EnhancedCrossReduce(Tail(pps), EnhancedCrossLoops(acc, Head(pps), 1, 2))

enhancedCrossRegionCollaboration(ps) ==
  EnhancedCrossReduce(processedPapers(ps), <<>>)

(***************************************************************************)
(* BiasResearchDashboard: chart views.                                     *)
(***************************************************************************)
TrimmedField(p, h) == Trim(Field(p, h))

\* The callback of validPapers: year && region.
IsValidPaper(paper) ==
  TrimmedField(paper, "Year") # <<>> /\ TrimmedField(paper, "Focus Region") # <<>>

validPapers(ps) == SelectSeq(ps, IsValidPaper)

\* allRows.filter((paper) => !validPapers.includes(paper))
skippedPapers(ps) ==
  LET skipped(paper) == ~ArrayIncludes(validPapers(ps), paper)
  IN  SelectSeq(ps, skipped)

\* For display: the Total Papers card and the count of the skipped note.
totalPapers(ps) == Len(ps)

skippedCount(ps) == Len(skippedPapers(ps))

\* map[key] = (map[key] || 0) + 1 on an insertion-ordered map
Bump(map, key) ==
  LET k == IndexOfKey(map, key)
  IN  IF k = 0 THEN Append(map, [key |-> key, count |-> 1])
      ELSE [map EXCEPT ![k].count = @ + 1]

\* yearMap: counts of the valid papers by the trimmed Year text.
RECURSIVE YearMapOf(_, _)
YearMapOf(valid, map) ==
  IF valid = <<>> THEN map
  ELSE LET year == TrimmedField(Head(valid), "Year")
       IN  YearMapOf(Tail(valid), IF year # <<>> THEN Bump(map, year) ELSE map)

yearMap(ps) == YearMapOf(validPapers(ps), <<>>)

\* A property name that is a canonical array index: digits without a
\* leading zero.
IsIndexKey(key) ==
  /\ key # <<>>
  /\ \A i \in 1..Len(key) : IsDigit(key[i])
  /\ (Len(key) > 1 => key[1] # "0")

KeyBefore(a, b) == DigitsValue(a.key, 0) < DigitsValue(b.key, 0)

IsIndexEntry(e) == IsIndexKey(e.key)

IsNameEntry(e) == ~IsIndexKey(e.key)

\* Object.entries: index keys ascending, then the other keys as inserted.
ObjectEntries(map) ==
  LET indexed == SelectSeq(map, IsIndexEntry)
  IN  StableSort(indexed, {c \in Pairs(indexed) : KeyBefore(c[1], c[2])})
        \o SelectSeq(map, IsNameEntry)

\* (a, b) => a.year - b.year is negative; a NaN difference counts as 0.
YearDiffNegative(a, b) == a.year # NaN /\ b.year # NaN /\ a.year < b.year

\* yearData: the arrays Object.entries(yearMap).map(...).sort(...) can give.
\* With a NaN year beside two different numeric years the comparator is not
\* consistent and the order is implementation-defined: any permutation.
yearDataOutcomes(ps) ==
  LET entries == ObjectEntries(yearMap(ps))
      mapped == [k \in 1..Len(entries) |->
                   [year |-> ToNumber(entries[k].key), count |-> entries[k].count]]
      years == {mapped[k].year : k \in DOMAIN mapped}
      consistent == NaN \notin years \/ Cardinality(years \ {NaN}) <= 1
  IN  IF consistent
        THEN {StableSort(mapped,
                {c \in Pairs(mapped) : YearDiffNegative(c[1], c[2])})}
      ELSE {[k \in 1..Len(mapped) |-> mapped[f[k]]] :
              f \in Permutations(1..Len(mapped))}

\* domainMap: counts of the valid papers by the trimmed, lowered Domain.
RECURSIVE DomainMapOf(_, _)
DomainMapOf(valid, map) ==
  IF valid = <<>> THEN map
  ELSE LET domain == ToLowerCase(TrimmedField(Head(valid), "Domain"))
       IN  DomainMapOf(Tail(valid),
                       IF domain # <<>> THEN Bump(map, domain) ELSE map)

domainMap(ps) == DomainMapOf(validPapers(ps), <<>>)

\* domainData: Object.entries(domainMap).map(([domain, count]) => ...)
domainData(ps) ==
  LET entries == ObjectEntries(domainMap(ps))
  IN  [k \in 1..Len(entries) |->
         [domain |-> entries[k].key, count |-> entries[k].count]]

(***************************************************************************)
(* BiasResearchDashboard: the world map.                                   *)
(***************************************************************************)
\* authorRegionToCountryMap[region] on the regions of the model; Null for
\* undefined.
CountryOf(region) ==
  CASE region = sUSA -> "United States of America"
    [] region = sUK -> "United Kingdom"
    [] region = sIndia -> "India"
    [] OTHER -> Null

\* The regions createCountryDomainMap counts for one paper, of the trimmed
\* Author Regions cell.
MapRegions(authorRegions, firstAuthorOnly) ==
  IF firstAuthorOnly
    THEN LET firstRegion == Trim(Split(authorRegions, ";")[1])
         IN  IF firstRegion # <<>> THEN <<firstRegion>> ELSE <<>>
    ELSE SplitCell(authorRegions)

\* regions.forEach((region) => {...}) for one paper.
RECURSIVE CountRegions(_, _, _, _)
CountRegions(map, regions, domain, title) ==
  IF regions = <<>> THEN map
  ELSE LET countryName == CountryOf(Head(regions))
           k == IndexOfKey(map, countryName)
           map1 == IF k # 0 THEN map
                   ELSE Append(map, [key |-> countryName, domain |-> <<>>,
                                     count |-> 0, papers |-> <<>>,
                                     domainBreakdown |-> <<>>])
           k1 == IndexOfKey(map1, countryName)
       IN  CountRegions(
             IF countryName = Null THEN map
             ELSE [map1 EXCEPT ![k1].count = @ + 1,
                               ![k1].papers = Append(@, title),
                               ![k1].domainBreakdown = Bump(@, domain)],
             Tail(regions), domain, title)

\* validPapers.forEach((paper) => {...})
RECURSIVE CountryMapOf(_, _, _)
CountryMapOf(valid, firstAuthorOnly, map) ==
  IF valid = <<>> THEN map
  ELSE LET paper == Head(valid)
           authorRegions == TrimmedField(paper, "Author Regions")
           domain == TrimmedField(paper, "Domain")
           title == IF Field(paper, "Paper Title") # <<>>
                      THEN Field(paper, "Paper Title") ELSE sUnknown
       IN  CountryMapOf(
             Tail(valid), firstAuthorOnly,
             IF authorRegions # <<>> /\ domain # <<>>
               THEN CountRegions(map, MapRegions(authorRegions, firstAuthorOnly),
                                 domain, title)
               ELSE map)

\* Object.entries(domainCounts).reduce((a, b) => a[1] > b[1] ? a : b)[0]
RECURSIVE ReduceDominant(_, _)
ReduceDominant(a, rest) ==
  IF rest = <<>> THEN a.key
  ELSE ReduceDominant(IF a.count > Head(rest).count THEN a ELSE Head(rest),
                      Tail(rest))

DominantDomain(domainCounts) ==
  LET entries == ObjectEntries(domainCounts)
  IN  ReduceDominant(Head(entries), Tail(entries))

createCountryDomainMap(ps, firstAuthorOnly) ==
  LET map == CountryMapOf(validPapers(ps), firstAuthorOnly, <<>>)
  IN  [k \in 1..Len(map) |->
         IF map[k].domainBreakdown # <<>>
           THEN [map[k] EXCEPT !.domain = DominantDomain(map[k].domainBreakdown)]
           ELSE map[k]]

\* const countryPapers = validPapers.filter(...): the valid papers with an
\* author region of the country.
CountryPapers(ps, countryName) ==
  LET ofCountry(paper) ==
        LET authorRegions == TrimmedField(paper, "Author Regions")
        IN  /\ authorRegions # <<>>
            /\ \E region \in Range(SplitCell(authorRegions)) :
                 CountryOf(region) = countryName
  IN  SelectSeq(validPapers(ps), ofCountry)

\* countryPapers.forEach(...): the domain counts of the recomputation.
RECURSIVE CountDomains(_, _)
CountDomains(countryPapers, domainCounts) ==
  IF countryPapers = <<>> THEN domainCounts
  ELSE LET domain == TrimmedField(Head(countryPapers), "Domain")
       IN  CountDomains(Tail(countryPapers),
                        IF domain # <<>> THEN Bump(domainCounts, domain)
                        ELSE domainCounts)

\* countryDomainMap after the loop that sets the dominant domain of each
\* country again.
CountryDomainMapOf(ps, firstAuthorOnly) ==
  LET map == createCountryDomainMap(ps, firstAuthorOnly)
  IN  [k \in 1..Len(map) |->
         LET domainCounts == CountDomains(CountryPapers(ps, map[k].key), <<>>)
         IN  IF domainCounts # <<>>
               THEN [map[k] EXCEPT !.domain = DominantDomain(domainCounts)]
               ELSE map[k]]

countryDomainMap == CountryDomainMapOf(papers, useFirstAuthorOnly)

(***************************************************************************)
(* BiasResearchDashboard: the papers table.                                *)
(***************************************************************************)
\* The callback of filteredPapers.
TableMatch(paper, query, fYear, fRegion, fDomain, fAuthor) ==
  LET title == Trim(ToLowerCase(Field(paper, "Paper Title")))
      author == Trim(ToLowerCase(Field(paper, "Authors")))
      doi == Trim(ToLowerCase(Field(paper, "DOI")))
      domain == Trim(ToLowerCase(Field(paper, "Domain")))
      focusRegion == Trim(Field(paper, "Focus Region"))
      year == Trim(Field(paper, "Year"))
      q == Trim(ToLowerCase(query))
      paperAuthors ==
        LET parts == Split(Field(paper, "Authors"), ";")
        IN  [i \in 1..Len(parts) |-> ToLowerCase(Trim(parts[i]))]
      authorMatches ==
        \/ fAuthor = <<>>
        \/ \E i \in DOMAIN paperAuthors :
             Includes(paperAuthors[i], ToLowerCase(fAuthor))
      authorRegions == MapTrim(Split(Field(paper, "Author Regions"), ";"))
      regionMatches ==
        \/ fRegion = <<>>
        \/ \E i \in DOMAIN authorRegions :
             ToLowerCase(authorRegions[i]) = ToLowerCase(fRegion)
  IN  /\ \/ query = <<>>
         \/ Includes(title, q)
         \/ Includes(author, q)
         \/ Includes(domain, q)
         \/ Includes(focusRegion, q)
         \/ Includes(doi, q)
      /\ (fYear = <<>> \/ year = fYear)
      /\ regionMatches
      /\ (fDomain = <<>> \/ domain = Trim(ToLowerCase(fDomain)))
      /\ authorMatches

\* filteredPapers of the dashboard, as the indices of papers it keeps.
TableFiltered(ps, query, fYear, fRegion, fDomain, fAuthor) ==
  LET keep(i) == TableMatch(ps[i], query, fYear, fRegion, fDomain, fAuthor)
  IN  SelectSeq([i \in 1..Len(ps) |-> i], keep)

filteredPapersD ==
  TableFiltered(papers, searchQuery, filterYear, filterRegion, filterDomain,
                filterAuthor)

\* The options of the four selects of the table.
yearOptions(ps) == {TrimmedField(ps[i], "Year") : i \in DOMAIN ps} \ {<<>>}

domainOptions(ps) == {TrimmedField(ps[i], "Domain") : i \in DOMAIN ps} \ {<<>>}

uniqueAuthors(ps) == UnionOver(ps, "Authors")

uniqueAuthorRegions(ps) == UnionOver(ps, "Author Regions")

\* The comparator of sortedPapers is negative on rows a, b.
SortBefore(ps, cfg, a, b) ==
  LET aVal == Field(ps[a], cfg.key)
      bVal == Field(ps[b], cfg.key)
  IN  /\ cfg # NoSort
      /\ IF cfg.direction = "asc" THEN StrLess(aVal, bVal) ELSE StrLess(bVal, aVal)

\* sortedPapers = [...filteredPapers].sort(...), as indices of papers.
SortedOf(ps, filtered, cfg) ==
  StableSort(filtered,
             {c \in Pairs(filtered) : SortBefore(ps, cfg, c[1], c[2])})

sortedPapers == SortedOf(papers, filteredPapersD, sortConfig)

pageSize == 10

\* Math.ceil(n / pageSize)
CeilDiv(n, d) == (n + d - 1) \div d

totalPages == CeilDiv(Len(sortedPapers), pageSize)

\* Array.prototype.slice(start, end) with its treatment of negative and
\* out-of-range arguments.
SliceJS(seq, start, end) ==
  LET n == Len(seq)
      clamp(x) == IF x < 0 THEN (IF n + x < 0 THEN 0 ELSE n + x)
                  ELSE (IF x > n THEN n ELSE x)
  IN  SubSeq(seq, clamp(start) + 1, clamp(end))

pagedPapers ==
  SliceJS(sortedPapers, (currentPage - 1) * pageSize, currentPage * pageSize)

(***************************************************************************)
(* AdvancedAnalytics: the two statistics tables under the charts.          *)
(***************************************************************************)
statsPageSize == 10

\* The rows of a set in the order of its sort; Before is the comparator
\* being negative, and no two rows of a table compare equal.
StatsSorted(rows, Before(_, _)) ==
  [k \in 1..Cardinality(rows) |->
     CHOOSE r \in rows : Cardinality({q \in rows : Before(q, r)}) = k - 1]

\* a.author.localeCompare(b.author) || a.domain.localeCompare(b.domain);
\* on the names of the model localeCompare orders as the code units do.
AuthorRowBefore(a, b) ==
  \/ StrLess(a.author, b.author)
  \/ a.author = b.author /\ StrLess(a.domain, b.domain)

\* Author Domain Statistics: one row per shown author of authorDataArray
\* and domain of a filtered paper that lists the author (names compared
\* trimmed and in lower case), with the number of those papers.
AuthorStatsRowsOf(pps, selA) ==
  LET shown == {a \in Range(authorDataArray(pps)) :
                  selA = {} \/ a.name \in selA}
      Lowered(pp) == {ToLowerCase(Trim(x)) : x \in Range(pp.authors)}
      Count(a, d) ==
        Cardinality({i \in DOMAIN pps :
                       /\ pps[i].domain = d
                       /\ ToLowerCase(Trim(a.name)) \in Lowered(pps[i])})
      all == {[author |-> a.name, domain |-> d, count |-> Count(a, d)] :
                a \in shown, d \in {pps[i].domain : i \in DOMAIN pps}}
  IN  StatsSorted({row \in all : row.count > 0}, AuthorRowBefore)

authorStatsRows == AuthorStatsRowsOf(filteredPapersA, selectedAuthors)

authorTotalPages == CeilDiv(Len(authorStatsRows), statsPageSize)

authorPagedRows ==
  SliceJS(authorStatsRows, (authorStatsPage - 1) * statsPageSize,
          authorStatsPage * statsPageSize)

InstRowBefore(a, b) ==
  \/ StrLess(a.institution, b.institution)
  \/ a.institution = b.institution /\ StrLess(a.domain, b.domain)

\* Institution Domain Statistics: one row per shown institution of
\* affiliationDataArray and domain of a filtered paper with the affiliation.
InstStatsRowsOf(pps, selI) ==
  LET shown == {a \in Range(affiliationDataArray(pps)) :
                  selI = {} \/ a.name \in selI}
      Count(a, d) ==
        Cardinality({i \in DOMAIN pps :
                       /\ pps[i].domain = d
                       /\ a.name \in Range(pps[i].affiliations)})
      all == {[institution |-> a.name, domain |-> d, count |-> Count(a, d)] :
                a \in shown, d \in {pps[i].domain : i \in DOMAIN pps}}
  IN  StatsSorted({row \in all : row.count > 0}, InstRowBefore)

instStatsRows == InstStatsRowsOf(filteredPapersA, selectedInstitutions)

instTotalPages == CeilDiv(Len(instStatsRows), statsPageSize)

instPagedRows ==
  SliceJS(instStatsRows, (instStatsPage - 1) * statsPageSize,
          instStatsPage * statsPageSize)

\* exportCSV: the column list.
ExportHeaders ==
  <<"SN", "Paper Title", "Authors", "DOI", "Year", "Author Regions",
    "Focus Region", "Domain", "">>

\* The text of a column name, written as one symbol (no name has a comma,
\* a quote or a line break); the last column has the empty name.
HeaderText(h) == IF h = "" THEN <<>> ELSE <<h>>

\* replace(/\n/g, " ") that replaces nothing.
KeepNewlines(f) == f

\* f.replace(/\n/g, " ")
ReplaceNewlines(f) == [i \in 1..Len(f) |-> IF f[i] = "\n" THEN " " ELSE f[i]]

\* f.replace(/"/g, '""')
RECURSIVE DoubleQuotes(_)
DoubleQuotes(f) ==
  IF f = <<>> THEN <<>>
  ELSE (IF Head(f) = "\"" THEN <<"\"", "\"">> ELSE <<Head(f)>>)
         \o DoubleQuotes(Tail(f))

\* The template literal without the replace of the quotes.
QuoteFieldPlain(f) == <<"\"">> \o f \o <<"\"">>

\* `"${f.replace(/"/g, '""')}"`
QuoteField(f) == <<"\"">> \o DoubleQuotes(f) \o <<"\"">>

\* rows: papersToExport.map((p) => headers.map((h) => String(p[h] || "")...))
ExportRows(papersToExport) ==
  [k \in 1..Len(papersToExport) |->
     [c \in 1..Len(ExportHeaders) |->
        ReplaceNewlines(Field(papersToExport[k], ExportHeaders[c]))]]

\* csv: [headers.join(","), ...rows.map(...)].join("\n")
exportCSV(papersToExport) ==
  LET rows == ExportRows(papersToExport)
      headerLine ==
        Join([c \in 1..Len(ExportHeaders) |-> HeaderText(ExportHeaders[c])],
             <<",">>)
      dataLines ==
        [k \in 1..Len(rows) |->
           Join([c \in 1..Len(ExportHeaders) |-> QuoteField(rows[k][c])],
                <<",">>)]
  IN  Join(<<headerLine>> \o dataLines, <<"\n">>)

\* Papa.parse(text, {header: true, skipEmptyLines: true}) of the papaparse
\* library on a comma separated text with "\n" line ends.
MinOf(S) == CHOOSE x \in S : \A y \in S : x <= y
MaxOf(S) == CHOOSE x \in S : \A y \in S : x >= y

\* The number of quotes in a row that end at position q of a field opened
\* by the quote at position open.
QuoteRun(text, open, q) ==
  q - MaxOf({open} \cup {j \in (open + 1)..(q - 1) : text[j] # "\""})

\* In a quoted field two quotes in a row are one quote of the value; a
\* single quote closes the field when the delimiter, a line end or the end
\* of the text follows, and is kept as data otherwise.
ClosingQuotes(text, open) ==
  {q \in (open + 1)..Len(text) :
     /\ text[q] = "\""
     /\ q = Len(text) \/ text[q + 1] \in {",", "\n"}
     /\ QuoteRun(text, open, q) % 2 = 1}

\* value.replace(/""/g, '"') of a quoted field
RECURSIVE Undouble(_)
Undouble(f) ==
  IF f = <<>> THEN <<>>
  ELSE IF Head(f) = "\"" /\ Len(f) > 1 /\ f[2] = "\""
    THEN <<"\"">> \o Undouble(Tail(Tail(f)))
  ELSE <<Head(f)>> \o Undouble(Tail(f))

\* The field that starts at cursor: its value and the position of the
\* delimiter or line end after it (Len(text) + 1 at the end of the text).
\* A quote at the start of a field opens a quoted field.
FieldAt(text, cursor) ==
  IF cursor <= Len(text) /\ text[cursor] = "\""
    THEN CHOOSE f \in
           {IF cl = {}
              THEN [value |-> Undouble(SubSeq(text, cursor + 1, Len(text))),
                    end |-> Len(text) + 1]
              ELSE [value |-> Undouble(SubSeq(text, cursor + 1, MinOf(cl) - 1)),
                    end |-> MinOf(cl) + 1] :
            cl \in {ClosingQuotes(text, cursor)}} : TRUE
    ELSE CHOOSE f \in
           {[value |-> SubSeq(text, cursor, stop - 1), end |-> stop] :
            stop \in {MinOf({p \in cursor..Len(text) : text[p] \in {",", "\n"}}
                            \cup {Len(text) + 1})}} : TRUE

\* The rows of fields of the text from cursor on.
RECURSIVE ParseFrom(_, _, _, _)
ParseFrom(text, cursor, row, rows) ==
  CHOOSE result \in
    {IF f.end > Len(text) THEN Append(rows, Append(row, f.value))
     ELSE IF text[f.end] = ","
       THEN ParseFrom(text, f.end + 1, Append(row, f.value), rows)
     ELSE ParseFrom(text, f.end + 1, <<>>, Append(rows, Append(row, f.value))) :
     f \in {FieldAt(text, cursor)}} : TRUE

\* skipEmptyLines: a line without any character gives no row.
NotEmptyLine(row) == row # <<(<<>>)>>

\* header: true.  The first row names the columns; every later row becomes
\* a record from the column names to its fields.
HeaderName(cell) == IF cell = <<>> THEN "" ELSE cell[1]

RowRecord(names, row) ==
  [h \in {names[c] : c \in DOMAIN names \cap DOMAIN row} |->
     row[CHOOSE c \in DOMAIN names \cap DOMAIN row : names[c] = h]]

PapaParse(text) ==
  IF text = <<>> THEN <<>>
  ELSE CHOOSE data \in
         {[k \in 1..(Len(rows) - 1) |->
             RowRecord([c \in DOMAIN rows[1] |-> HeaderName(rows[1][c])],
                       rows[k + 1])] :
          rows \in {SelectSeq(ParseFrom(text, 1, <<>>, <<>>), NotEmptyLine)}} : TRUE

\* exportCSV on every array of distinct records, computed once.
ExportInputs ==
  {rows \in UNION {[1..n -> DashPool] : n \in 0..MaxPapers} :
     \A i, j \in DOMAIN rows : i # j => rows[i] # rows[j]}

ExportCells == [rows \in ExportInputs |-> exportCSV(rows)]

ExportCell(rows) ==
  IF rows \in ExportInputs THEN ExportCells[rows] ELSE exportCSV(rows)

\* The rows of sortedPapers, the argument of the Export CSV button.
SortedRows == [k \in 1..Len(sortedPapers) |-> papers[sortedPapers[k]]]

(***************************************************************************)
(* Rendering.                                                              *)
(***************************************************************************)
\* The branch the dashboard page renders: loading ? ... : error ? ... :
\* papers.length === 0 ? ... : dashboard.
DashboardBranch ==
  IF loading THEN "loading"
  ELSE IF error # Null THEN "error"
  ELSE IF Len(papers) = 0 THEN "nodata"
  ELSE "dashboard"

\* The branch the analytics page renders.
AdvancedBranch ==
  IF loading THEN "loading"
  ELSE IF error # Null THEN "error"
  ELSE "analytics"

DashboardShown == page = "dashboard" /\ DashboardBranch = "dashboard"

\* The controls of the table can be reached: the modal, a full-viewport
\* overlay above them, is closed.
ControlsShown == DashboardShown /\ modalPaper = 0

AnalyticsShown == page = "advanced" /\ AdvancedBranch = "analytics"

(***************************************************************************)
(* The end of the load.                                                    *)
(***************************************************************************)
\* The rows the parser can deliver on the mounted page.
DatasetsOf(pg) ==
  IF pg = "dashboard" THEN Datasets(DashPool) ELSE Datasets(AnalyticsPool)

\* complete: (results) => { setPapers(results.data); setLoading(false); }
\* On the analytics page AdvancedAnalytics mounts with the rows, and the
\* graph with all of them, nothing being selected.
ParseCompleteFrom(datasets) ==
  /\ pc = "parse"
  /\ \E data \in datasets :
       /\ papers' = data
       /\ \E shown \in {IF page = "advanced"
                          THEN SelectSeq(processedPapers(data), LAMBDA pp : TRUE)
                          ELSE <<>>} :
            \E rows \in {GraphPapers(shown)} :
              /\ rfNodes' = GraphNodes(rows)
              /\ rfEdges' = GraphEdges(rows)
  /\ loading' = FALSE
  /\ pc' = "done"
  /\ UNCHANGED <<page, error, tableVars, selectedAuthors, selectedDomains,
                 selectedRegions, selectedInstitutions, authorStatsPage,
                 instStatsPage>>
  /\ download' = NoDownload

ParseComplete == ParseCompleteFrom(DatasetsOf(page))

\* The same step when papers.csv holds rows of ListPool.
ParseCompleteLists == ParseCompleteFrom(Datasets(ListPool))

\* The same step when papers.csv holds rows of GraphPool.
ParseCompleteGraph == ParseCompleteFrom(Datasets(GraphPool))

\* The same step when papers.csv holds rows of MapPool (dashboard page) or
\* of AuthorsPool (analytics page).
ParseCompleteBoth ==
  ParseCompleteFrom(IF page = "dashboard" THEN Datasets(MapPool)
                    ELSE Datasets(AuthorsPool))

\* The same step when papers.csv holds rows of InstPool.
ParseCompleteInst == ParseCompleteFrom(Datasets(InstPool))

\* ParseError without its setLoading(false).
ParseErrorKeepsLoading ==
  /\ pc = "parse"
  /\ loading' = loading
  /\ papers' = <<>>
  /\ error' = msgParse
  /\ pc' = "failed"
  /\ UNCHANGED <<page, tableVars, analyticsVars>>
  /\ download' = NoDownload

\* error: (err) => { setLoading(false); setPapers([]); setError("Failed to
\* parse papers.csv. ...") }
ParseError ==
  /\ pc = "parse"
  /\ loading' = FALSE
  /\ papers' = <<>>
  /\ error' = msgParse
  /\ pc' = "failed"
  /\ UNCHANGED <<page, tableVars, analyticsVars>>
  /\ download' = NoDownload

(***************************************************************************)
(* BiasResearchDashboard: event handlers.  The controls exist only in the  *)
(* dashboard branch of the render.  The effect on [searchQuery,            *)
(* filterYear, filterRegion, filterDomain, filterAuthor] runs after a      *)
(* render in which one of them changed and sets currentPage to 1.          *)
(***************************************************************************)
\* The texts typed into the search box.
SearchTexts == { <<>>, ToLowerCase(sNepal), sBob }

\* The column headers clicked.
SortColumns == { "Year", "Paper Title" }

filterVars ==
  <<searchQuery, filterYear, filterRegion, filterDomain, filterAuthor>>

\* ResetPageEffect without its setCurrentPage call.
ResetPageEffectNone == currentPage' = currentPage

\* useEffect(() => { setCurrentPage(1); }, [searchQuery, ...])
ResetPageEffect ==
  currentPage' = IF filterVars' # filterVars THEN 1 ELSE currentPage

SetSearchQuery ==
  /\ ControlsShown
  /\ \E q \in SearchTexts : searchQuery' = q
  /\ UNCHANGED <<filterYear, filterRegion, filterDomain, filterAuthor>>
  /\ ResetPageEffect
  /\ UNCHANGED <<page, loadVars, sortConfig, useFirstAuthorOnly, modalPaper,
                 analyticsVars>>
  /\ download' = NoDownload

SetFilterYear ==
  /\ ControlsShown
  /\ \E y \in {<<>>} \cup yearOptions(papers) : filterYear' = y
  /\ UNCHANGED <<searchQuery, filterRegion, filterDomain, filterAuthor>>
  /\ ResetPageEffect
  /\ UNCHANGED <<page, loadVars, sortConfig, useFirstAuthorOnly, modalPaper,
                 analyticsVars>>
  /\ download' = NoDownload

SetFilterRegion ==
  /\ ControlsShown
  /\ \E r \in {<<>>} \cup uniqueAuthorRegions(papers) : filterRegion' = r
  /\ UNCHANGED <<searchQuery, filterYear, filterDomain, filterAuthor>>
  /\ ResetPageEffect
  /\ UNCHANGED <<page, loadVars, sortConfig, useFirstAuthorOnly, modalPaper,
                 analyticsVars>>
  /\ download' = NoDownload

SetFilterDomain ==
  /\ ControlsShown
  /\ \E d \in {<<>>} \cup domainOptions(papers) : filterDomain' = d
  /\ UNCHANGED <<searchQuery, filterYear, filterRegion, filterAuthor>>
  /\ ResetPageEffect
  /\ UNCHANGED <<page, loadVars, sortConfig, useFirstAuthorOnly, modalPaper,
                 analyticsVars>>
  /\ download' = NoDownload

SetFilterAuthor ==
  /\ ControlsShown
  /\ \E a \in {<<>>} \cup uniqueAuthors(papers) : filterAuthor' = a
  /\ UNCHANGED <<searchQuery, filterYear, filterRegion, filterDomain>>
  /\ ResetPageEffect
  /\ UNCHANGED <<page, loadVars, sortConfig, useFirstAuthorOnly, modalPaper,
                 analyticsVars>>
  /\ download' = NoDownload

\* The Clear Filters button of the table.
ClearFilters ==
  /\ ControlsShown
  /\ searchQuery' = <<>>
  /\ filterYear' = <<>>
  /\ filterRegion' = <<>>
  /\ filterDomain' = <<>>
  /\ filterAuthor' = <<>>
  /\ ResetPageEffect
  /\ UNCHANGED <<page, loadVars, sortConfig, useFirstAuthorOnly, modalPaper,
                 analyticsVars>>
  /\ download' = NoDownload

\* ClickHeader that flips the direction on every click, whatever the column.
ClickHeaderFlips ==
  /\ ControlsShown
  /\ \E col \in SortColumns :
       sortConfig' =
         IF sortConfig # NoSort
           THEN [key |-> col,
                 direction |-> IF sortConfig.direction = "asc" THEN "desc"
                               ELSE "asc"]
           ELSE [key |-> col, direction |-> "asc"]
  /\ UNCHANGED <<page, loadVars, filterVars, currentPage, useFirstAuthorOnly,
                 modalPaper, analyticsVars>>
  /\ download' = NoDownload

\* onClick of a column header.
ClickHeader ==
  /\ ControlsShown
  /\ \E col \in SortColumns :
       sortConfig' =
         IF sortConfig # NoSort /\ sortConfig.key = col
           THEN [key |-> col,
                 direction |-> IF sortConfig.direction = "asc" THEN "desc"
                               ELSE "asc"]
           ELSE [key |-> col, direction |-> "asc"]
  /\ UNCHANGED <<page, loadVars, filterVars, currentPage, useFirstAuthorOnly,
                 modalPaper, analyticsVars>>
  /\ download' = NoDownload

\* Prev: disabled={currentPage === 1}, p => Math.max(1, p - 1)
PrevPage ==
  /\ ControlsShown
  /\ currentPage # 1
  /\ currentPage' = IF currentPage - 1 > 1 THEN currentPage - 1 ELSE 1
  /\ UNCHANGED <<page, loadVars, filterVars, sortConfig, useFirstAuthorOnly,
                 modalPaper, analyticsVars>>
  /\ download' = NoDownload

\* Next: disabled={currentPage === totalPages}, p => Math.min(totalPages, p + 1)
NextPage ==
  /\ ControlsShown
  /\ currentPage # totalPages
  /\ currentPage' = IF totalPages < currentPage + 1 THEN totalPages
                    ELSE currentPage + 1
  /\ UNCHANGED <<page, loadVars, filterVars, sortConfig, useFirstAuthorOnly,
                 modalPaper, analyticsVars>>
  /\ download' = NoDownload

\* The two Author Mapping buttons of the world map.
SetUseFirstAuthorOnly ==
  /\ ControlsShown
  /\ \E b \in BOOLEAN : useFirstAuthorOnly' = b
  /\ UNCHANGED <<page, loadVars, filterVars, sortConfig, currentPage,
                 modalPaper, analyticsVars>>
  /\ download' = NoDownload

\* The Details button of a row of the current page.
OpenPaper ==
  /\ ControlsShown
  /\ \E k \in DOMAIN pagedPapers : modalPaper' = pagedPapers[k]
  /\ UNCHANGED <<page, loadVars, filterVars, sortConfig, currentPage,
                 useFirstAuthorOnly, analyticsVars>>
  /\ download' = NoDownload

\* The close button of the modal.
ClosePaper ==
  /\ DashboardShown
  /\ modalPaper # 0
  /\ modalPaper' = 0
  /\ UNCHANGED <<page, loadVars, filterVars, sortConfig, currentPage,
                 useFirstAuthorOnly, analyticsVars>>
  /\ download' = NoDownload

\* Export CSV: onClick={() => exportCSV(sortedPapers, "papers.csv")}
ExportCSV ==
  /\ ControlsShown
  /\ \E rows \in {SortedRows} :
       download' = [filename |-> <<"papers.csv">>, csv |-> ExportCell(rows)]
  /\ UNCHANGED <<page, loadVars, tableVars, analyticsVars>>

\* Export This Paper, in the modal:
\* exportCSV([modalPaper], `paper_${modalPaper["SN"] || "detail"}.csv`)
PaperFilename(p) ==
  <<"paper_">> \o (IF Field(p, "SN") = <<>> THEN <<"detail">> ELSE Field(p, "SN"))
    \o <<".csv">>

ExportThisPaper ==
  /\ DashboardShown
  /\ modalPaper # 0
  /\ download' = [filename |-> PaperFilename(papers[modalPaper]),
                  csv |-> ExportCell(<<papers[modalPaper]>>)]
  /\ UNCHANGED <<page, loadVars, tableVars, analyticsVars>>

(***************************************************************************)
(* AdvancedAnalytics: event handlers.  A selection is kept as the set of   *)
(* its values: the code reads it only through length and includes.  Every  *)
(* onChange stores a new array, so the effect on the four selections runs  *)
(* and sets authorStatsPage to 1; filteredPapers is recomputed and the     *)
(* graph's two effects store the rebuilt nodes and edges.                  *)
(***************************************************************************)
Selections(options) == {S \in SUBSET options : Cardinality(S) <= MaxSelected}

\* GraphSync that keeps a node already on display as it is and adds only
\* the nodes that are new.
GraphSyncKeepsNodes ==
  \E filtered \in {AnalyticsFiltered(papers, selectedAuthors',
                                      selectedDomains', selectedRegions',
                                      selectedInstitutions')} :
    \E rows \in {GraphPapers(filtered)} :
      /\ rfNodes' =
           [k \in DOMAIN GraphNodes(rows) |->
              IF \E o \in DOMAIN rfNodes : rfNodes[o].id = GraphNodes(rows)[k].id
                THEN rfNodes[CHOOSE o \in DOMAIN rfNodes :
                               rfNodes[o].id = GraphNodes(rows)[k].id]
                ELSE GraphNodes(rows)[k]]
      /\ rfEdges' = GraphEdges(rows)

\* useEffect(() => setRfNodes(nodes), [nodes]); same for the edges
GraphSync ==
  \E filtered \in {AnalyticsFiltered(papers, selectedAuthors',
                                      selectedDomains', selectedRegions',
                                      selectedInstitutions')} :
    \E rows \in {GraphPapers(filtered)} :
      /\ rfNodes' = GraphNodes(rows)
      /\ rfEdges' = GraphEdges(rows)

SetSelectedAuthors ==
  /\ AnalyticsShown
  /\ \E S \in Selections(allAuthors(papers)) : selectedAuthors' = S
  /\ UNCHANGED <<selectedDomains, selectedRegions, selectedInstitutions>>
  /\ authorStatsPage' = 1
  /\ GraphSync
  /\ UNCHANGED <<page, loadVars, tableVars, instStatsPage>>
  /\ download' = NoDownload

SetSelectedDomains ==
  /\ AnalyticsShown
  /\ \E S \in Selections(allDomains(papers)) : selectedDomains' = S
  /\ UNCHANGED <<selectedAuthors, selectedRegions, selectedInstitutions>>
  /\ authorStatsPage' = 1
  /\ GraphSync
  /\ UNCHANGED <<page, loadVars, tableVars, instStatsPage>>
  /\ download' = NoDownload

SetSelectedRegions ==
  /\ AnalyticsShown
  /\ \E S \in Selections(allRegions(papers)) : selectedRegions' = S
  /\ UNCHANGED <<selectedAuthors, selectedDomains, selectedInstitutions>>
  /\ authorStatsPage' = 1
  /\ GraphSync
  /\ UNCHANGED <<page, loadVars, tableVars, instStatsPage>>
  /\ download' = NoDownload

SetSelectedInstitutions ==
  /\ AnalyticsShown
  /\ \E S \in Selections(allInstitutions(papers)) : selectedInstitutions' = S
  /\ UNCHANGED <<selectedAuthors, selectedDomains, selectedRegions>>
  /\ authorStatsPage' = 1
  /\ GraphSync
  /\ UNCHANGED <<page, loadVars, tableVars, instStatsPage>>
  /\ download' = NoDownload

\* The Clear Filters button of the filter bar.
ClearSelections ==
  /\ AnalyticsShown
  /\ selectedAuthors' = {}
  /\ selectedDomains' = {}
  /\ selectedRegions' = {}
  /\ selectedInstitutions' = {}
  /\ authorStatsPage' = 1
  /\ GraphSync
  /\ UNCHANGED <<page, loadVars, tableVars, instStatsPage>>
  /\ download' = NoDownload

\* Prev and Next under the author statistics table.  The page is state of
\* AdvancedAnalytics: it renders again, filteredPapers is a new array
\* (processedPapers is built in every render) and the graph is synced.
PrevAuthorStats ==
  /\ AnalyticsShown
  /\ authorStatsPage # 1
  /\ authorStatsPage' = IF authorStatsPage - 1 > 1 THEN authorStatsPage - 1
                        ELSE 1
  /\ UNCHANGED <<selectedAuthors, selectedDomains, selectedRegions,
                 selectedInstitutions, instStatsPage>>
  /\ GraphSync
  /\ UNCHANGED <<page, loadVars, tableVars>>
  /\ download' = NoDownload

NextAuthorStats ==
  /\ AnalyticsShown
  /\ \E total \in {authorTotalPages} :
       /\ authorStatsPage # total
       /\ total # 0
       /\ authorStatsPage' = IF total < authorStatsPage + 1 THEN total
                             ELSE authorStatsPage + 1
  /\ UNCHANGED <<selectedAuthors, selectedDomains, selectedRegions,
                 selectedInstitutions, instStatsPage>>
  /\ GraphSync
  /\ UNCHANGED <<page, loadVars, tableVars>>
  /\ download' = NoDownload

\* Prev and Next under the institution statistics table.
PrevInstStats ==
  /\ AnalyticsShown
  /\ instStatsPage # 1
  /\ instStatsPage' = IF instStatsPage - 1 > 1 THEN instStatsPage - 1 ELSE 1
  /\ UNCHANGED <<selectedAuthors, selectedDomains, selectedRegions,
                 selectedInstitutions, authorStatsPage>>
  /\ GraphSync
  /\ UNCHANGED <<page, loadVars, tableVars>>
  /\ download' = NoDownload

NextInstStats ==
  /\ AnalyticsShown
  /\ \E total \in {instTotalPages} :
       /\ instStatsPage # total
       /\ total # 0
       /\ instStatsPage' = IF total < instStatsPage + 1 THEN total
                           ELSE instStatsPage + 1
  /\ UNCHANGED <<selectedAuthors, selectedDomains, selectedRegions,
                 selectedInstitutions, authorStatsPage>>
  /\ GraphSync
  /\ UNCHANGED <<page, loadVars, tableVars>>
  /\ download' = NoDownload

\* Where a dragged node is dropped: a point that is no place on the circle
\* (the places are <<idx, total>> with total at least 1).
Dropped == <<0, 0>>

\* onNodesChange of useNodesState: the user drags a node of the graph; the
\* change is applied to rfNodes and nothing else is rendered again.
NodesChange ==
  /\ AnalyticsShown
  /\ \E k \in DOMAIN rfNodes :
       /\ rfNodes[k].position # Dropped
       /\ rfNodes' = [rfNodes EXCEPT ![k].position = Dropped]
  /\ UNCHANGED <<page, loadVars, tableVars, selectedAuthors, selectedDomains,
                 selectedRegions, selectedInstitutions, authorStatsPage,
                 instStatsPage, rfEdges>>
  /\ download' = NoDownload

(***************************************************************************)
(* Mounting.                                                               *)
(***************************************************************************)
\* The state of a page right after it is mounted: every useState at its
\* initial value and the load effect started.
Mounted(pg) ==
  /\ page = pg
  /\ pc = "fetch"
  /\ papers = <<>>
  /\ loading = TRUE
  /\ error = Null
  /\ searchQuery = <<>>
  /\ filterYear = <<>>
  /\ filterRegion = <<>>
  /\ filterDomain = <<>>
  /\ filterAuthor = <<>>
  /\ sortConfig = NoSort
  /\ currentPage = 1
  /\ useFirstAuthorOnly = FALSE
  /\ modalPaper = 0
  /\ selectedAuthors = {}
  /\ selectedDomains = {}
  /\ selectedRegions = {}
  /\ selectedInstitutions = {}
  /\ authorStatsPage = 1
  /\ instStatsPage = 1
  /\ rfNodes = <<>>
  /\ rfEdges = <<>>
  /\ download = NoDownload

\* The page is left and mounted again (reload or re-navigation): the state
\* of the old instance is gone.
Remount ==
  /\ pc \in {"done", "failed"}
  /\ page' = page
  /\ pc' = "fetch"
  /\ papers' = <<>>
  /\ loading' = TRUE
  /\ error' = Null
  /\ searchQuery' = <<>>
  /\ filterYear' = <<>>
  /\ filterRegion' = <<>>
  /\ filterDomain' = <<>>
  /\ filterAuthor' = <<>>
  /\ sortConfig' = NoSort
  /\ currentPage' = 1
  /\ useFirstAuthorOnly' = FALSE
  /\ modalPaper' = 0
  /\ selectedAuthors' = {}
  /\ selectedDomains' = {}
  /\ selectedRegions' = {}
  /\ selectedInstitutions' = {}
  /\ authorStatsPage' = 1
  /\ instStatsPage' = 1
  /\ rfNodes' = <<>>
  /\ rfEdges' = <<>>
  /\ download' = NoDownload

(***************************************************************************)
(* Specifications.                                                         *)
(***************************************************************************)
Init == Mounted("dashboard")

InitAnalytics == Mounted("advanced")

Load ==
  \/ FetchReject
  \/ FetchResolve
  \/ TextReject
  \/ TextResolve
  \/ ParseComplete
  \/ ParseError
  \/ Remount

Next ==
  \/ Load
  \/ SetSearchQuery
  \/ SetFilterYear
  \/ SetFilterRegion
  \/ SetFilterDomain
  \/ SetFilterAuthor
  \/ ClearFilters
  \/ ClickHeader
  \/ PrevPage
  \/ NextPage
  \/ SetUseFirstAuthorOnly
  \/ OpenPaper
  \/ ClosePaper
  \/ ExportCSV
  \/ ExportThisPaper

NextAnalytics ==
  \/ Load
  \/ SetSelectedAuthors
  \/ SetSelectedDomains
  \/ SetSelectedRegions
  \/ SetSelectedInstitutions
  \/ ClearSelections

\* The analytics page on the rows of ListPool.
LoadLists ==
  \/ FetchReject
  \/ FetchResolve
  \/ TextReject
  \/ TextResolve
  \/ ParseCompleteLists
  \/ ParseError
  \/ Remount

NextLists ==
  \/ LoadLists
  \/ SetSelectedAuthors
  \/ SetSelectedDomains
  \/ SetSelectedRegions
  \/ SetSelectedInstitutions
  \/ ClearSelections

\* The analytics page with the drags of the graph's nodes.
LoadGraph ==
  \/ FetchReject
  \/ FetchResolve
  \/ TextReject
  \/ TextResolve
  \/ ParseCompleteGraph
  \/ ParseError
  \/ Remount

NextGraph ==
  \/ LoadGraph
  \/ SetSelectedAuthors
  \/ SetSelectedDomains
  \/ SetSelectedRegions
  \/ SetSelectedInstitutions
  \/ ClearSelections
  \/ NodesChange

\* Either page, loaded with the rows of MapPool or of AuthorsPool.
InitBoth == Mounted("dashboard") \/ Mounted("advanced")

LoadBoth ==
  \/ FetchReject
  \/ FetchResolve
  \/ TextReject
  \/ TextResolve
  \/ ParseCompleteBoth
  \/ ParseError
  \/ Remount

NextBoth ==
  \/ LoadBoth
  \/ SetSearchQuery
  \/ SetFilterYear
  \/ SetFilterRegion
  \/ SetFilterDomain
  \/ SetFilterAuthor
  \/ ClearFilters
  \/ ClickHeader
  \/ PrevPage
  \/ NextPage
  \/ SetUseFirstAuthorOnly
  \/ OpenPaper
  \/ ClosePaper
  \/ ExportCSV
  \/ ExportThisPaper
  \/ SetSelectedAuthors
  \/ SetSelectedDomains
  \/ SetSelectedRegions
  \/ SetSelectedInstitutions
  \/ ClearSelections
  \/ PrevAuthorStats
  \/ NextAuthorStats

\* The analytics page on the rows of InstPool.
LoadInst ==
  \/ FetchReject
  \/ FetchResolve
  \/ TextReject
  \/ TextResolve
  \/ ParseCompleteInst
  \/ ParseError
  \/ Remount

NextInst ==
  \/ LoadInst
  \/ SetSelectedAuthors
  \/ SetSelectedDomains
  \/ SetSelectedRegions
  \/ SetSelectedInstitutions
  \/ ClearSelections
  \/ PrevInstStats
  \/ NextInstStats

\* Either page with the steps of its load effect, a remount and a few
\* controls.  The promise of fetch() and the promise of res.text() settle,
\* and Papa.parse of a string calls one of its callbacks before it returns:
\* a step of the load effect that is pending is taken.
LoadStep ==
  \/ FetchReject
  \/ FetchResolve
  \/ TextReject
  \/ TextResolve
  \/ ParseCompleteBoth
  \/ ParseError

NextLoad ==
  \/ LoadStep
  \/ Remount
  \/ SetSearchQuery
  \/ ClickHeader
  \/ SetUseFirstAuthorOnly
  \/ SetSelectedDomains

Spec == Init /\ [][Next]_vars

SpecAnalytics == InitAnalytics /\ [][NextAnalytics]_vars

SpecLists == InitAnalytics /\ [][NextLists]_vars

SpecGraph == InitAnalytics /\ [][NextGraph]_vars

SpecBoth == InitBoth /\ [][NextBoth]_vars

SpecInst == InitAnalytics /\ [][NextInst]_vars

SpecLoad == InitBoth /\ [][NextLoad]_vars /\ WF_vars(LoadStep)

(***************************************************************************)
(* Claims.                                                                 *)
(***************************************************************************)
\* A step in which the load fails, and the two kinds of failure.
LoadFails == pc \in {"fetch", "text"} /\ pc' = "failed"

ParseFails == pc = "parse" /\ pc' = "failed"

\* C1: when the load fails (fetch rejects, response not ok, empty text,
\* parser error) the error message is non-null, the records are empty and
\* loading has ended; the message of a parse failure is the parse message
\* and no load failure carries it.
C1_FailureSurfaced ==
  [][ /\ (LoadFails \/ ParseFails) =>
           (error' # Null /\ papers' = <<>> /\ loading' = FALSE)
      /\ ParseFails => error' = msgParse
      /\ LoadFails => error' # msgParse ]_vars

C1_Witness ==
  pc = "failed" /\ error = msgParse /\ papers = <<>> /\ loading = FALSE

\* C2: a failed load is terminal.  Once the error is set, every step other
\* than mounting the page again leaves the records, the error, the loading
\* flag and the position of the load as they are; and no step that changes
\* the state of the table (filter, sort, page, map mode, modal) touches them.
C2_FailedLoadTerminal ==
  [][ /\ error # Null => (Remount \/ UNCHANGED loadVars)
      /\ (tableVars' # tableVars /\ ~Remount) => UNCHANGED loadVars ]_vars

C2_Witness == pc = "failed" /\ error = msgNotFound /\ papers = <<>>

\* The values of a row in each of the four filter dimensions.
AuthorValues(p) == Range(SplitTrimFilter(Field(p, "Authors")))

RegionValues(p) == Range(SplitTrimFilter(Field(p, "Author Regions")))

InstitutionValues(p) == Range(SplitTrimFilter(Field(p, "Affiliations")))

DomainValues(p) == {Trim(Field(p, "Domain"))} \ {<<>>}

PassesDimensions(p) ==
  /\ (selectedAuthors = {} \/ AuthorValues(p) \cap selectedAuthors # {})
  /\ (selectedDomains = {} \/ DomainValues(p) \cap selectedDomains # {})
  /\ (selectedRegions = {} \/ RegionValues(p) \cap selectedRegions # {})
  /\ (selectedInstitutions = {}
        \/ InstitutionValues(p) \cap selectedInstitutions # {})

NothingSelected ==
  /\ selectedAuthors = {}
  /\ selectedDomains = {}
  /\ selectedRegions = {}
  /\ selectedInstitutions = {}

\* C3: the filtered set holds exactly the rows that pass, in each of the
\* four dimensions, "nothing selected or one of the row's values selected";
\* with nothing selected it holds every row.
C3_FilterAnyMatchAnd ==
  /\ RawRows(filteredPapersA) = SelectSeq(papers, PassesDimensions)
  /\ NothingSelected => RawRows(filteredPapersA) = papers

C3_Witness ==
  /\ selectedAuthors # {}
  /\ selectedInstitutions # {}
  /\ Len(filteredPapersA) = 1
  /\ Len(papers) = 2
  /\ \E i \in DOMAIN papers :
       /\ AuthorValues(papers[i]) \cap selectedAuthors # {}
       /\ InstitutionValues(papers[i]) \cap selectedInstitutions = {}

\* The rows the graph is given, the ids of its nodes, and for each edge the
\* pair of its endpoints with its count.
GraphRows == RawRows(filteredPapersA)

NodeIds(rows) == {GraphNodes(rows)[i].id : i \in DOMAIN GraphNodes(rows)}

EdgeWeights(rows) ==
  {<<{EdgeMapOf(rows)[k].source, EdgeMapOf(rows)[k].target},
     EdgeMapOf(rows)[k].count>> : k \in DOMAIN EdgeMapOf(rows)}

CoAppear(rows, a, b) ==
  Cardinality({k \in DOMAIN rows : {a, b} \subseteq AuthorValues(rows[k])})

\* C4: the node set of the graph is the set of the distinct author strings
\* of its rows, and the count of every edge is the number of rows in which
\* both of its endpoints appear.
C4_GraphNodesAndWeights ==
  AnalyticsShown =>
    /\ {rfNodes[i].id : i \in DOMAIN rfNodes} = allAuthors(GraphRows)
    /\ \A k \in DOMAIN EdgeMapOf(GraphRows) :
         LET e == EdgeMapOf(GraphRows)[k]
         IN  e.count = CoAppear(GraphRows, e.source, e.target)

\* The region values of a row, compared without regard to letter case.
LoweredRegionValues(p) == {ToLowerCase(r) : r \in RegionValues(p)}

RegionPairs(rows) ==
  {pr \in SUBSET (UNION {LoweredRegionValues(rows[k]) : k \in DOMAIN rows}) :
     Cardinality(pr) = 2}

PapersWithPair(rows, pr) ==
  Cardinality({k \in DOMAIN rows : pr \subseteq LoweredRegionValues(rows[k])})

PairKeyOf(pr) ==
  LET a == CHOOSE x \in pr : TRUE
      b == CHOOSE x \in pr : x # a
  IN  PairKey(a, b)

\* The view says, of every pair of distinct regions, the number of rows
\* that have both, and has no other key.
CountsEachPairOnce(view, rows) ==
  /\ \A pr \in RegionPairs(rows) :
       LET k == IndexOfKey([i \in DOMAIN view |->
                              [key |-> ToLowerCase(view[i].key)]], PairKeyOf(pr))
       IN  IF PapersWithPair(rows, pr) = 0 THEN k = 0
           ELSE k # 0 /\ view[k].papers = PapersWithPair(rows, pr)
  /\ \A i \in DOMAIN view :
       \E pr \in RegionPairs(rows) : ToLowerCase(view[i].key) = PairKeyOf(pr)

\* C5: in the cross-region view every row adds exactly 1 to each unordered
\* pair of distinct author regions it has, and to nothing else (pair names
\* compared without regard to letter case); in the current view over the
\* filtered rows and in the earlier one over all rows.
C5_CrossRegionPairsOnce ==
  AnalyticsShown =>
    /\ CountsEachPairOnce(crossRegionCollaboration(filteredPapersA), GraphRows)
    /\ CountsEachPairOnce(enhancedCrossRegionCollaboration(papers), papers)

RECURSIVE SumCounts(_)
SumCounts(view) ==
  IF view = <<>> THEN 0 ELSE Head(view).count + SumCounts(Tail(view))

\* The Year cell is a run of digits.
WellFormedYear(p) ==
  /\ TrimmedField(p, "Year") # <<>>
  /\ \A i \in DOMAIN TrimmedField(p, "Year") : IsDigit(TrimmedField(p, "Year")[i])

YearViewOk(view, rows) ==
  /\ \A i, j \in DOMAIN view : i < j => view[i].year < view[j].year
  /\ \A i \in DOMAIN view : view[i].year # NaN
  /\ SumCounts(view) = Cardinality({k \in DOMAIN rows : WellFormedYear(rows[k])})

\* C6: the dashboard's group-by-year view is in non-decreasing order of
\* year, has one entry per distinct year, and its counts add up to the
\* number of rows with a well-formed integer year.
C6_YearViewSum ==
  DashboardShown => \A view \in yearDataOutcomes(papers) : YearViewOk(view, papers)

DomainKeys(view) == {view[i].domain : i \in DOMAIN view}

DomainViewOk(view, rows) ==
  /\ SumCounts(view) =
       Cardinality({k \in DOMAIN rows : TrimmedField(rows[k], "Domain") # <<>>})
  /\ \A a, b \in DomainKeys(view) :
       ToLowerCase(Trim(a)) = ToLowerCase(Trim(b)) => a = b

\* C7: in each group-by-domain view (the dashboard's and the analytics
\* page's) the counts add up to the number of rows with a non-empty trimmed
\* Domain, and no two keys differ only in letter case or outer white space.
C7_DomainViewSum ==
  DashboardShown =>
    /\ DomainViewOk(domainData(papers), papers)
    /\ DomainViewOk(domainDataArray(papers), papers)

\* The node set and the edge counts of the two maps the graph is built from.
AuthorKeys(maps) == {maps.authorMap[i].key : i \in DOMAIN maps.authorMap}

PairCounts(maps) ==
  {<<{maps.edgeMap[k].source, maps.edgeMap[k].target}, maps.edgeMap[k].count>> :
     k \in DOMAIN maps.edgeMap}

SameGraph(m1, m2) ==
  AuthorKeys(m1) = AuthorKeys(m2) /\ PairCounts(m1) = PairCounts(m2)

\* The rows in another order, and the rows with the authors of row k in
\* another order.
Reordered(rows, f) == [k \in DOMAIN rows |-> rows[f[k]]]

AuthorsReordered(rows, k, h) ==
  LET authors == SplitTrimFilter(Field(rows[k], "Authors"))
  IN  [rows EXCEPT ![k]["Authors"] =
         Join([i \in DOMAIN authors |-> authors[h[i]]], <<";">>)]

\* C8: the graph built from the rows in any order, or with the authors of a
\* row in any order, has the node set and the edge counts of the graph
\* built from the rows as given, which is the graph on display.
C8_GraphOrderIndependent ==
  AnalyticsShown =>
    \A rows \in {GraphRows} : \A built \in {GraphMaps(rows, <<>>, <<>>)} :
      /\ {rfNodes[i].id : i \in DOMAIN rfNodes} = AuthorKeys(built)
      /\ \A f \in Permutations(DOMAIN rows) :
           \A again \in {GraphMaps(Reordered(rows, f), <<>>, <<>>)} :
             SameGraph(built, again)
      /\ \A k \in DOMAIN rows :
           \A h \in Permutations(DOMAIN SplitTrimFilter(Field(rows[k], "Authors"))) :
             \A again \in {GraphMaps(AuthorsReordered(rows, k, h), <<>>, <<>>)} :
               SameGraph(built, again)

C8_Witness ==
  /\ AnalyticsShown
  /\ Len(GraphRows) = 2
  /\ GraphRows[1] # GraphRows[2]
  /\ \E k \in DOMAIN EdgeMapOf(GraphRows) : EdgeMapOf(GraphRows)[k].count = 2
  /\ Cardinality(NodeIds(GraphRows)) = 3

\* The two rows of the scenario.
ScenarioPaper1 ==
  Paper(s1, sT1, sAlice \o sSemi \o sBob, sD1, s2020,
        sUSA \o sSemi \o sUK, sMIT \o sSemi \o sKU, sNepal, sFairness)

ScenarioPaper2 ==
  Paper(s2, sT2, sBob \o sSemi \o sCarol, sD2, s2021,
        sUK \o sSemi \o sIndia, sKU \o sSemi \o sMIT, sIndia, sFairness)

InScenario ==
  AnalyticsShown /\ papers = <<ScenarioPaper1, ScenarioPaper2>> /\ NothingSelected

\* C9: on the two rows of the scenario with nothing selected, Bob has 2
\* papers and 2 collaborators, the cross-region view has exactly the pairs
\* UK-USA and India-UK with 1 paper each, and the graph has 3 nodes and 2
\* edges of count 1.
C9_TwoRecordScenario ==
  InScenario =>
    /\ \E i \in DOMAIN authorDataArray(filteredPapersA) :
         /\ authorDataArray(filteredPapersA)[i].name = sBob
         /\ authorDataArray(filteredPapersA)[i].papers = 2
         /\ authorDataArray(filteredPapersA)[i].collaborationCount = 2
    /\ {<<crossRegionDataArray(filteredPapersA)[i].regions,
          crossRegionDataArray(filteredPapersA)[i].papers>> :
          i \in DOMAIN crossRegionDataArray(filteredPapersA)}
         = {<<PairKey(sUK, sUSA), 1>>, <<PairKey(sIndia, sUK), 1>>}
    /\ Len(rfNodes) = 3
    /\ Len(rfEdges) = 2
    /\ \A k \in DOMAIN EdgeMapOf(GraphRows) : EdgeMapOf(GraphRows)[k].count = 1

SearchColumns == {"Paper Title", "Authors", "Domain", "Focus Region", "DOI"}

\* The search text occurs in one of the searched cells, letter case apart.
SearchHits(p, q) ==
  \/ q = <<>>
  \/ \E col \in SearchColumns :
       Includes(ToLowerCase(Field(p, col)), ToLowerCase(q))

\* C10: the table keeps a row exactly when the search text is empty or
\* occurs, letter case apart, in the row's title, authors, domain, region
\* or DOI, and the other filters hold.
C10_TableQuery ==
  DashboardShown =>
    \A i \in DOMAIN papers :
      ArrayIncludes(filteredPapersD, i) <=>
        /\ SearchHits(papers[i], searchQuery)
        /\ TableMatch(papers[i], <<>>, filterYear, filterRegion, filterDomain,
                      filterAuthor)

\* The four selects of the table as exact-match filters (letter case and
\* outer white space apart).
ExactFilters(p) ==
  /\ (filterYear = <<>> \/ TrimmedField(p, "Year") = filterYear)
  /\ (filterRegion = <<>>
        \/ \E r \in RegionValues(p) : ToLowerCase(r) = ToLowerCase(filterRegion))
  /\ (filterDomain = <<>>
        \/ ToLowerCase(TrimmedField(p, "Domain")) = ToLowerCase(Trim(filterDomain)))
  /\ (filterAuthor = <<>>
        \/ \E a \in AuthorValues(p) : ToLowerCase(a) = ToLowerCase(filterAuthor))

\* C11: the table keeps a row exactly when the search text passes and the
\* year, author-region, domain and author filters are empty or equal to the
\* row's year, one of its author regions, its domain, one of its authors;
\* with all five filter values empty it keeps every row.
C11_ExactMatchFilters ==
  DashboardShown =>
    /\ \A i \in DOMAIN papers :
         ArrayIncludes(filteredPapersD, i) <=>
           /\ TableMatch(papers[i], searchQuery, <<>>, <<>>, <<>>, <<>>)
           /\ ExactFilters(papers[i])
    /\ (searchQuery = <<>> /\ filterYear = <<>> /\ filterRegion = <<>>
          /\ filterDomain = <<>> /\ filterAuthor = <<>>)
         => Len(filteredPapersD) = Len(papers)

\* The pieces of a text between the positions in cuts.
Nth(S, k) == CHOOSE x \in S : Cardinality({y \in S : y < x}) = k - 1

CutAt(s, cuts) ==
  CHOOSE pieces \in
    {[k \in 1..(Cardinality(all) - 1) |->
        SubSeq(s, Nth(all, k) + 1, Nth(all, k + 1) - 1)] :
     all \in {cuts \cup {0, Len(s) + 1}}} : TRUE

\* The lines of a text, and the pieces of a line between the commas that
\* are outside quotes.
Lines(text) == CutAt(text, {i \in DOMAIN text : text[i] = "\n"})

RawFields(line) ==
  CutAt(line, {i \in DOMAIN line :
                 /\ line[i] = ","
                 /\ Cardinality({j \in 1..i : line[j] = "\""}) % 2 = 0})

\* A piece is a field in double quotes whose inner quotes come in pairs;
\* the value it writes.
RECURSIVE QuotesPaired(_)
QuotesPaired(inner) ==
  IF inner = <<>> THEN TRUE
  ELSE IF Head(inner) # "\"" THEN QuotesPaired(Tail(inner))
  ELSE Len(inner) > 1 /\ inner[2] = "\"" /\ QuotesPaired(Tail(Tail(inner)))

RECURSIVE Unpaired(_)
Unpaired(inner) ==
  IF inner = <<>> THEN <<>>
  ELSE IF Head(inner) = "\"" THEN <<"\"">> \o Unpaired(Tail(Tail(inner)))
  ELSE <<Head(inner)>> \o Unpaired(Tail(inner))

Inner(piece) == SubSeq(piece, 2, Len(piece) - 1)

Wrapped(piece) ==
  /\ Len(piece) >= 2
  /\ piece[1] = "\""
  /\ piece[Len(piece)] = "\""
  /\ QuotesPaired(Inner(piece))

\* The value of a cell with every line break replaced by a space.
Collapsed(v) == [i \in DOMAIN v |-> IF v[i] = "\n" THEN " " ELSE v[i]]

\* The rows handed to exportCSV by the step that saved the file.
Exported ==
  IF download.filename = <<"papers.csv">> THEN SortedRows
  ELSE <<papers[modalPaper]>>

\* The texts exportCSV writes, and for each of them its lines cut into
\* pieces and its parse, computed once.
ExportTexts == {ExportCells[rows] : rows \in ExportInputs}

PiecesOf ==
  [text \in ExportTexts |->
     CHOOSE cut \in {[k \in DOMAIN lines |-> RawFields(lines[k])] :
                     lines \in {Lines(text)}} : TRUE]

ParsedOf == [text \in ExportTexts |-> PapaParse(text)]

\* C12: the saved text has, after the header line, one line per exported
\* row; a data line has as many fields as there are columns, each field in
\* double quotes with its inner quotes doubled, and writes the row's cell
\* with its line breaks replaced by spaces.
C12_ExportQuoting ==
  download # NoDownload =>
    /\ download.csv \in ExportTexts
    /\ \A lines \in {PiecesOf[download.csv]} : \A exported \in {Exported} :
         /\ Len(lines) = 1 + Len(exported)
         /\ Len(lines[1]) = Len(ExportHeaders)
         /\ \A k \in DOMAIN exported :
              /\ Len(lines[k + 1]) = Len(ExportHeaders)
              /\ \A c \in DOMAIN lines[k + 1] :
                   /\ Wrapped(lines[k + 1][c])
                   /\ Unpaired(Inner(lines[k + 1][c]))
                        = Collapsed(Field(exported[k], ExportHeaders[c]))

C12_Witness ==
  /\ download # NoDownload
  /\ \E k \in DOMAIN Exported : "\n" \in Range(Field(Exported[k], "Paper Title"))
  /\ \E k \in DOMAIN Exported : "\"" \in Range(Field(Exported[k], "Paper Title"))

\* C13: parsing the saved text with its header line as the column names
\* gives one record per exported row, with, in every exported column, the
\* row's cell with its line breaks replaced by spaces.
C13_ExportRoundTrip ==
  download # NoDownload =>
    /\ download.csv \in ExportTexts
    /\ \A parsed \in {ParsedOf[download.csv]} : \A exported \in {Exported} :
         /\ Len(parsed) = Len(exported)
         /\ \A k \in DOMAIN parsed :
              /\ DOMAIN parsed[k] = Range(ExportHeaders)
              /\ \A h \in Range(ExportHeaders) :
                   parsed[k][h] = Collapsed(Field(exported[k], h))

C13_Witness ==
  /\ download # NoDownload
  /\ Len(Exported) = 2
  /\ \E k \in DOMAIN Exported : "," \in Range(Field(Exported[k], "Paper Title"))
  /\ \E k \in DOMAIN Exported : "\"" \in Range(Field(Exported[k], "Paper Title"))

\* The loaded records that have a non-empty trimmed cell in column h.
WithField(h) == {k \in DOMAIN papers : TrimmedField(papers[k], h) # <<>>}

MissingYearOrRegion ==
  {k \in DOMAIN papers : k \notin WithField("Year") \cap WithField("Focus Region")}

\* C14: every loaded record is in exactly one of the valid and the skipped
\* records, the two counts add up to the total, the skipped count is the
\* number of records without a year or without a region, the unfiltered
\* table keeps every record, and a view leaves out only the records that
\* lack the field it groups by: the year view counts every record with a
\* year, the domain view every record with a domain.
SkippedAccounted ==
  /\ \A k \in DOMAIN papers :
       ArrayIncludes(validPapers(papers), papers[k])
         # ArrayIncludes(skippedPapers(papers), papers[k])
  /\ Len(validPapers(papers)) + skippedCount(papers) = totalPapers(papers)
  /\ totalPapers(papers) = Len(papers)
  /\ skippedCount(papers) = Cardinality(MissingYearOrRegion)
  /\ TableFiltered(papers, <<>>, <<>>, <<>>, <<>>, <<>>)
       = [k \in DOMAIN papers |-> k]

C14_SkippedOnlyWhereNeeded ==
  DashboardShown =>
    /\ SkippedAccounted
    /\ SumCounts(yearMap(papers)) = Cardinality(WithField("Year"))
    /\ SumCounts(domainMap(papers)) = Cardinality(WithField("Domain"))

\* The entries of a semicolon-delimited cell, trimmed, empty ones kept in
\* their places; entry i, or 'Unknown' when it is missing or empty.
RawList(p, h) == MapTrim(Split(Field(p, h), ";"))

EntryAt(p, h, i) ==
  IF i \in DOMAIN RawList(p, h) /\ RawList(p, h)[i] # <<>>
    THEN RawList(p, h)[i] ELSE sUnknown

\* Every entry of the author list of the row names an author, so that an
\* author's index is its place in the cell.
AuthorsAligned(p) == \A i \in DOMAIN RawList(p, "Authors") : RawList(p, "Authors")[i] # <<>>

\* Author i of row k has no earlier place in the rows, which are in the
\* order in which the graph reads them.
FirstPlace(rows, k, i) ==
  /\ \A j \in 1..(k - 1) : RawList(rows[k], "Authors")[i] \notin Range(RawList(rows[j], "Authors"))
  /\ \A j \in 1..(i - 1) : RawList(rows[k], "Authors")[j] # RawList(rows[k], "Authors")[i]

\* C15: author i of a row is listed under the region that is entry i of
\* the row's region list ('Unknown' when that entry is missing or empty),
\* the by-region analysis lists no author elsewhere, and the node made for
\* the author at its first place has entry i of the region list and of the
\* affiliation list.
Places(rows) ==
  UNION {{<<k, i>> : i \in DOMAIN RawList(rows[k], "Authors")} : k \in DOMAIN rows}

IndexAligned(rows, analysis, nodes) ==
  /\ \A e \in Range(analysis) :
       e.authors = {RawList(rows[ki[1]], "Authors")[ki[2]] :
                      ki \in {at \in Places(rows) :
                                EntryAt(rows[at[1]], "Author Regions", at[2])
                                  = e.region}}
  /\ \A ki \in Places(rows) :
       /\ \E e \in Range(analysis) :
            e.region = EntryAt(rows[ki[1]], "Author Regions", ki[2])
       /\ FirstPlace(rows, ki[1], ki[2]) =>
            \E n \in Range(nodes) :
              /\ n.id = RawList(rows[ki[1]], "Authors")[ki[2]]
              /\ n.region = EntryAt(rows[ki[1]], "Author Regions", ki[2])
              /\ n.affiliation = EntryAt(rows[ki[1]], "Affiliations", ki[2])

C15_IndexAlignedAttributes ==
  (AnalyticsShown /\ \A k \in DOMAIN GraphRows : AuthorsAligned(GraphRows[k])) =>
    \A filtered \in {filteredPapersA} : \A rows \in {GraphPapers(filtered)} :
      IndexAligned(rows, authorRegionAnalysis(filtered), rfNodes)

\* A name: not empty, and without white space at its ends.
ProperName(a) == a # <<>> /\ Trim(a) = a

\* C16: every node id of the graph on display is a non-empty trimmed
\* string, and both endpoints of every edge are.
C16_NoEmptyAuthorNode ==
  AnalyticsShown =>
    /\ \A n \in Range(rfNodes) : ProperName(n.id)
    /\ \A e \in Range(rfEdges) : ProperName(e.source) /\ ProperName(e.target)

C16_Witness ==
  /\ AnalyticsShown
  /\ rfNodes # <<>>
  /\ \E k \in DOMAIN GraphRows :
       Field(GraphRows[k], "Authors") # <<>> /\ ~AuthorsAligned(GraphRows[k])
  /\ \E k \in DOMAIN GraphRows : Field(GraphRows[k], "Authors") = <<>>

\* The number of authors of a row, taken as 1 when it names none, and the
\* sizes of each class.
NamedAuthors(p) ==
  {i \in DOMAIN RawList(p, "Authors") : RawList(p, "Authors")[i] # <<>>}

SizeOf(p) ==
  IF NamedAuthors(p) = {} THEN 1 ELSE Cardinality(NamedAuthors(p))

InClass(type, n) ==
  CASE type = "Solo" -> n = 1
    [] type = "Duo" -> n = 2
    [] type = "Small Team" -> 3 <= n /\ n <= 5
    [] type = "Large Team" -> n > 5
    [] OTHER -> FALSE

\* C17: every entry of collaborationPatterns is one of the four classes
\* and holds exactly the rows whose author count lies in the class, and
\* the counts of the entries add up to the number of rows.
C17_CollaborationBuckets ==
  AnalyticsShown =>
    \A patterns \in {collaborationPatterns(papers)} :
      \A size \in {[x \in DOMAIN papers |-> SizeOf(papers[x])]} :
        /\ SumCounts(patterns) = Len(papers)
        /\ \A i, j \in DOMAIN patterns :
             patterns[i].type = patterns[j].type => i = j
        /\ \A e \in Range(patterns) :
             /\ e.count = Len(e.papers)
             /\ {e.papers[k].raw : k \in DOMAIN e.papers}
                  = {papers[x] : x \in {y \in DOMAIN papers :
                                          InClass(e.type, size[y])}}
             /\ e.count = Cardinality({x \in DOMAIN papers :
                                         InClass(e.type, size[x])})
        /\ \A x \in DOMAIN papers :
             \E e \in Range(patterns) : InClass(e.type, size[x])

C17_Witness ==
  /\ AnalyticsShown
  /\ \E x \in DOMAIN papers : SizeOf(papers[x]) = 5
  /\ \E x \in DOMAIN papers : SizeOf(papers[x]) = 6

\* The places of an author in the rows, the rows it appears in, and the
\* place where it is first met.
PlacesOf(rows, a) ==
  {at \in Places(rows) : RawList(rows[at[1]], "Authors")[at[2]] = a}

RowsOf(rows, a) == {at[1] : at \in PlacesOf(rows, a)}

PlaceBefore(x, y) == x[1] < y[1] \/ (x[1] = y[1] /\ x[2] < y[2])

MetBefore(rows, a, b) ==
  \E x \in PlacesOf(rows, a) : \A y \in PlacesOf(rows, b) : PlaceBefore(x, y)

DomainLabel(p) ==
  IF TrimmedField(p, "Domain") = <<>> THEN sUnknown ELSE TrimmedField(p, "Domain")

AuthorRowOk(rows, e) ==
  /\ e.papers = Cardinality(RowsOf(rows, e.name))
  /\ e.collaborationCount =
       Cardinality(UNION {AuthorValues(rows[k]) : k \in RowsOf(rows, e.name)}
                     \ {e.name})
  /\ e.domainCount = Cardinality({DomainLabel(rows[k]) : k \in RowsOf(rows, e.name)})
  /\ e.regionCount =
       Cardinality({EntryAt(rows[at[1]], "Author Regions", at[2]) :
                      at \in PlacesOf(rows, e.name)})

\* C18: the author ranking has one row per author of the filtered records;
\* its paper count is the number of those records that name the author,
\* its collaborator count the number of other authors of those records,
\* its domain and region counts the numbers of distinct domains of those
\* records and of distinct regions of the author in them; the rows are in
\* descending order of paper count, equal counts in the order in which the
\* authors are first met.
AuthorRankingOk(rows, view) ==
  /\ {view[i].name : i \in DOMAIN view} = allAuthors(rows)
  /\ \A i \in DOMAIN view : AuthorRowOk(rows, view[i])
  /\ \A i, j \in DOMAIN view :
       i < j =>
         \/ view[i].papers > view[j].papers
         \/ /\ view[i].papers = view[j].papers
            /\ MetBefore(rows, view[i].name, view[j].name)

C18_AuthorRanking ==
  AnalyticsShown =>
    \A rows \in {GraphRows} :
      AuthorRankingOk(rows, authorDataArray(filteredPapersA))

\* The rows with an author from the institution.
RowsWith(rows, inst) == {k \in DOMAIN rows : inst \in InstitutionValues(rows[k])}

\* C19: the affiliation ranking has one row per institution of the
\* filtered records; its Papers value is the number of those records with
\* an author from the institution, its Collaborators value the number of
\* other institutions on those records.
AffiliationRankingOk(rows, view) ==
  /\ {view[i].name : i \in DOMAIN view} = allInstitutions(rows)
  /\ \A i \in DOMAIN view :
       /\ view[i].papers = Cardinality(RowsWith(rows, view[i].name))
       /\ view[i].collaboratorCount =
            Cardinality(UNION {InstitutionValues(rows[k]) :
                                 k \in RowsWith(rows, view[i].name)}
                          \ {view[i].name})

C19_AffiliationRanking ==
  AnalyticsShown =>
    \A rows \in {GraphRows} :
      AffiliationRankingOk(rows, affiliationDataArray(filteredPapersA))

\* C20: no step after the load changes the record list, and the graph on
\* display is the graph of the filtered records in the order in which the
\* filter derived them: no other view has reordered the array it reads.
RecordsKept == (pc = "done" /\ pc' = "done") => papers' = papers

GraphReadsFiltered ==
  AnalyticsShown =>
    \A rows \in {GraphRows} :
      rfNodes = GraphNodes(rows) /\ rfEdges = GraphEdges(rows)

C20_NoInPlaceMutation == [][RecordsKept /\ GraphReadsFiltered']_vars

\* The rows the graph is given, of the records and the four selections.
PassedOf(ps, selA, selD, selR, selI) ==
  GraphPapers(AnalyticsFiltered(ps, selA, selD, selR, selI))

PassedRows ==
  PassedOf(papers, selectedAuthors, selectedDomains, selectedRegions,
           selectedInstitutions)

\* C21: in every step that changes the rows passed to the co-author graph,
\* the nodes and edges on display become exactly the graph built from the
\* new rows alone: nothing of the earlier graph, and no position a node was
\* dragged to, is left.
C21_GraphRebuilt ==
  [][\A before \in {PassedRows} :
       \A rows \in {PassedOf(papers', selectedAuthors', selectedDomains',
                              selectedRegions', selectedInstitutions')} :
       rows # before =>
         rfNodes' = GraphNodes(rows) /\ rfEdges' = GraphEdges(rows)]_vars

\* A selection is in force and the graph on display is the smaller graph of
\* the selected rows, every node at its computed place.
C21_Witness ==
  /\ AnalyticsShown
  /\ selectedAuthors # {}
  /\ \A rows \in {PassedRows} :
       /\ rfNodes = GraphNodes(rows)
       /\ rfNodes # <<>>
       /\ Len(rfNodes) < Len(GraphNodes(papers))

\* The four selections of the analytics view.
selectionVars ==
  <<selectedAuthors, selectedDomains, selectedRegions, selectedInstitutions>>

\* C22: a step that changes the search text or the year, region, domain or
\* author filter of the papers table leaves the current page at 1, and a
\* step that changes one of the four selections of the analytics view
\* leaves the page of the author statistics at 1.
C22_PaginationReset ==
  [][ /\ filterVars' # filterVars => currentPage' = 1
      /\ selectionVars' # selectionVars => authorStatsPage' = 1 ]_vars

\* The author statistics are on their second page with nothing selected:
\* every selection made now is a change that has a page to reset.
C22_Witness ==
  AnalyticsShown /\ authorStatsPage = 2 /\ selectedAuthors = {}

\* The places of the Author Regions list of a row that a mode of the map
\* counts: the first place with First Author Only, every place with All
\* Authors; and the number of counted places of valid rows that name a
\* region of the country, over all rows and over the rows of one domain.
RegionPlaces(rows) ==
  UNION {{<<k, i>> : i \in DOMAIN RawList(rows[k], "Author Regions")} :
           k \in DOMAIN rows}

CountedPlaces(p, firstAuthorOnly) ==
  {i \in DOMAIN RawList(p, "Author Regions") :
     /\ firstAuthorOnly => i = 1
     /\ CountryOf(RawList(p, "Author Regions")[i]) # Null}

Contributions(rows, firstAuthorOnly, country) ==
  {ki \in RegionPlaces(rows) :
     /\ IsValidPaper(rows[ki[1]])
     /\ ki[2] \in CountedPlaces(rows[ki[1]], firstAuthorOnly)
     /\ CountryOf(RawList(rows[ki[1]], "Author Regions")[ki[2]]) = country}

Tally(rows, firstAuthorOnly, country, domain) ==
  Cardinality({ki \in Contributions(rows, firstAuthorOnly, country) :
                 TrimmedField(rows[ki[1]], "Domain") = domain})

MapCountsOk(rows, firstAuthorOnly, view) ==
  /\ \A ki \in RegionPlaces(rows) :
       \A country \in {CountryOf(RawList(rows[ki[1]], "Author Regions")[ki[2]])} :
         Contributions(rows, firstAuthorOnly, country) # {} =>
           \E k \in DOMAIN view : view[k].key = country
  /\ \A k \in DOMAIN view :
       /\ view[k].count =
            Cardinality(Contributions(rows, firstAuthorOnly, view[k].key))
       /\ view[k].count > 0
       /\ \A e \in Range(view[k].domainBreakdown) :
            e.count = Tally(rows, firstAuthorOnly, view[k].key, e.key)
       /\ \A x \in DOMAIN rows :
            \A d \in {TrimmedField(rows[x], "Domain")} :
              Tally(rows, firstAuthorOnly, view[k].key, d) > 0 =>
                \E e \in Range(view[k].domainBreakdown) : e.key = d

MapDominantOk(rows, firstAuthorOnly, view) ==
  \A k \in DOMAIN view :
    /\ Tally(rows, firstAuthorOnly, view[k].key, view[k].domain) > 0
    /\ \A x \in DOMAIN rows :
         Tally(rows, firstAuthorOnly, view[k].key,
               TrimmedField(rows[x], "Domain"))
           <= Tally(rows, firstAuthorOnly, view[k].key, view[k].domain)

\* C23: on the world map each country's contribution count and domain
\* breakdown count the regions of the mode in force (the first author's
\* region of each valid paper with First Author Only, every author region
\* with All Authors), and the dominant domain that colours the country is
\* a most frequent domain of that same breakdown.
C23_MapModes ==
  DashboardShown =>
    \A view \in {countryDomainMap} :
      /\ MapCountsOk(papers, useFirstAuthorOnly, view)
      /\ MapDominantOk(papers, useFirstAuthorOnly, view)

\* A step that is a click on a column header: the sort changes to a sort.
HeaderClicked == sortConfig' # sortConfig /\ sortConfig' # NoSort

Flipped(direction) == IF direction = "asc" THEN "desc" ELSE "asc"

\* C24: a click on a column header sorts by that column ascending, unless
\* the table is sorted by that column already: then the column stays and
\* the direction flips.  While no header has been clicked the table shows
\* the filtered records in input order, and under every sort it shows
\* exactly the filtered records, each once.
TableShowsFiltered ==
  DashboardShown =>
    \A sorted \in {sortedPapers} : \A filtered \in {filteredPapersD} :
      /\ sortConfig = NoSort => sorted = filtered
      /\ Len(sorted) = Len(filtered)
      /\ Range(sorted) = Range(filtered)
      /\ Cardinality(Range(sorted)) = Len(sorted)

C24_HeaderSort ==
  /\ []TableShowsFiltered
  /\ [][HeaderClicked =>
          IF sortConfig # NoSort /\ sortConfig'.key = sortConfig.key
            THEN sortConfig'.direction = Flipped(sortConfig.direction)
            ELSE sortConfig'.direction = "asc"]_vars

\* The Year header was clicked twice and two records are in the table.
C24_Witness ==
  /\ ControlsShown
  /\ sortConfig = [key |-> "Year", direction |-> "desc"]
  /\ Len(sortedPapers) = 2

\* C25: the current page of the papers table is at least 1 and at most
\* max(1, total pages), also when the filtered result is empty and the
\* total is 0.
C25_PageInRange ==
  DashboardShown =>
    /\ currentPage >= 1
    /\ currentPage <= (IF totalPages > 1 THEN totalPages ELSE 1)

\* Math.max(1, total): the last page a statistics table may show.
LastPage(total) == IF total > 1 THEN total ELSE 1

AuthorPageInRange ==
  AnalyticsShown =>
    \A total \in {authorTotalPages} :
      authorStatsPage >= 1 /\ authorStatsPage <= LastPage(total)

InstPageInRange ==
  AnalyticsShown =>
    \A total \in {instTotalPages} :
      instStatsPage >= 1 /\ instStatsPage <= LastPage(total)

\* C26: in the analytics view the page of the author statistics table and
\* the page of the institution statistics table are both within
\* 1..max(1, total pages) of their current rows, so a table that has a row
\* never shows an empty page.
C26_StatsPagesInRange ==
  /\ AuthorPageInRange
  /\ InstPageInRange
  /\ AnalyticsShown =>
       /\ authorStatsRows # <<>> => authorPagedRows # <<>>
       /\ instStatsRows # <<>> => instPagedRows # <<>>

\* C27: every load attempt leaves the loading state, whatever the outcome
\* of the fetch and of the parse, and loading, once false, is never true
\* again in the mounted page (only a new mount starts with loading true).
C27_LoadingEnds ==
  /\ loading ~> ~loading
  /\ [][(~loading /\ loading') => Remount]_vars

\* The parser reported an error and the page is no longer loading.
C27_Witness == pc = "failed" /\ error = msgParse /\ ~loading

\* The branch the mounted page renders.
RenderBranch == IF page = "dashboard" THEN DashboardBranch ELSE AdvancedBranch

\* The content of the page (the dashboard, or the analytics view) is shown.
ContentShown == RenderBranch \in {"dashboard", "analytics"}

ErrorMeansEmpty == error # Null => papers = <<>> /\ ~loading

RecordsMeanNoError == papers # <<>> => error = Null

\* C28: an error message implies no records and the end of loading, records
\* imply no error message, exactly one of the four render branches applies
\* (loading, error, no data, content), and the content is shown only when
\* the page is not loading, has no error and has at least one record.
C28_RenderBranches ==
  /\ ErrorMeansEmpty
  /\ RecordsMeanNoError
  /\ RenderBranch = "loading" <=> loading
  /\ RenderBranch = "error" <=> ~loading /\ error # Null
  /\ RenderBranch = "nodata" <=> ~loading /\ error = Null /\ papers = <<>>
  /\ ContentShown <=> ~loading /\ error = Null /\ papers # <<>>

\* The ids of the nodes of the displayed graph.
ShownNodeIds == {rfNodes[k].id : k \in DOMAIN rfNodes}

\* The two ends of an edge, as a set.
Ends(edge) == {edge.source, edge.target}

NoSelfLoop == \A k \in DOMAIN rfEdges : rfEdges[k].source # rfEdges[k].target

EndsAreNodes == \A k \in DOMAIN rfEdges : Ends(rfEdges[k]) \subseteq ShownNodeIds

OneEdgePerPair ==
  \A k, l \in DOMAIN rfEdges : k # l => Ends(rfEdges[k]) # Ends(rfEdges[l])

\* C29: the displayed co-author graph is well-formed: no edge joins an
\* author to itself, both ends of every edge are nodes, and no two edges
\* join the same unordered pair of authors.
C29_GraphWellFormed ==
  AnalyticsShown => NoSelfLoop /\ EndsAreNodes /\ OneEdgePerPair

\* The degree of a node of the displayed graph: the edges incident to it.
Degree(id) == Cardinality({k \in DOMAIN rfEdges : id \in Ends(rfEdges[k])})

CollaboratorsAreDegree(ranking) ==
  \A k \in DOMAIN ranking :
    ranking[k].collaborationCount = Degree(ranking[k].name)

\* C30: on the filtered records, the collaborator count of every author of
\* the author ranking is the degree of that author's node in the displayed
\* graph, and the aggregator counts as many distinct authors as the graph
\* has nodes.
C30_RankingMatchesGraph ==
  AnalyticsShown =>
    \A filtered \in {filteredPapersA} :
      /\ CollaboratorsAreDegree(authorDataArray(filtered))
      /\ Len(authorAnalysis(filtered)) = Len(rfNodes)

=============================================================================
